---- MODULE Spec2Model ----
(***************************************************************************)
(* BuildMVP: estimates, invoices and their line items kept in a relational *)
(* store (001_initial_schema.sql) and edited by browser views that each    *)
(* issue one store statement at a time.                                    *)
(*                                                                         *)
(* Money is kept in cents (DECIMAL(12,2)), quantities in hundredths        *)
(* (DECIMAL(10,2)), tax rates in hundredths of a percent (DECIMAL(5,2)).   *)
(* A product quantity * unit_price is therefore in units of 1/10000.       *)
(* Every store statement is one transaction: the row triggers of the       *)
(* statement run inside it, so a statement is one step of the model.       *)
(***************************************************************************)
EXTENDS Integers, Sequences, FiniteSets, TLC

\* ------------------------------------------------------------------ bounds
MaxEst == 2
MaxInv == 2
MaxItemId == 4
NumSessions == 2
MaxDocs == 3
MaxFaults == 1
MaxMails == 2
SendEst == 2
SendInv == 2
SendDocs == 3
TicksPerDay == 2
MaxDay == 2
RaceEst == 1
RaceInv == 1
FormsEst == 1
FormsInv == 1
PaidInv == 1
ArchEst == 1
ArchInv == 1
ClientEst == 1
ClientInv == 2
DelEst == 1
DelInv == 1
TenEst == 2
TenInv == 2
TenDocs == 2
DatesInv == 2

\* ------------------------------------------------------- program constants
DueDays == 30
NoId == 0
NoDate == 0

NULL == "null"

Users == {"u1", "u2"}
Sessions == 1..NumSessions
ItemIds == 1..MaxItemId

EstimateStatus == {"draft", "sent", "approved", "declined"}
InvoiceStatus == {"unpaid", "paid"}

\* ---------------------------------------------------------- input domains
Labor == [description |-> "Labor", quantity |-> 1000, unit |-> "hr", unit_price |-> 5000]
Materials == [description |-> "Materials", quantity |-> 100, unit |-> "each", unit_price |-> 20000]
Trim == [description |-> "Trim", quantity |-> 33, unit |-> "lnft", unit_price |-> 105]

Numbers == {"N-1", "N-2"}

\* What a user types into a form: a filling with a client, one without, and
\* three that fail validation (no line items, no title, no number).  "own"
\* stands for the one client of the user.
Fillings ==
  { [number |-> "N-1", client |-> "own", title |-> "Kitchen", description |-> "remodel",
     notes |-> "net 30", tax_rate |-> 800, items |-> <<Labor, Materials>>],
    [number |-> "N-2", client |-> "", title |-> "Deck", description |-> NULL,
     notes |-> NULL, tax_rate |-> 825, items |-> <<Trim, Trim>>],
    [number |-> "N-2", client |-> "", title |-> "Deck", description |-> NULL,
     notes |-> NULL, tax_rate |-> 825, items |-> <<>>],
    [number |-> "N-2", client |-> "own", title |-> "", description |-> NULL,
     notes |-> NULL, tax_rate |-> 825, items |-> <<Trim>>],
    [number |-> "", client |-> "own", title |-> "Deck", description |-> NULL,
     notes |-> NULL, tax_rate |-> 825, items |-> <<Trim>>] }

VARIABLES
  clients,          \* table clients
  estimates,        \* table estimates
  estimate_items,   \* table estimate_items
  invoices,         \* table invoices
  invoice_items,    \* table invoice_items
  seq,              \* how many estimate / invoice ids were issued
  faults,           \* how many store statements have failed so far
  today,            \* the current date, as a day number
  sess,             \* the open views, one per session
  toast,            \* what the last step reported to its user, if anything
  outbox,           \* the mails handed to the mailer so far
  tod               \* the time of day, in ticks since midnight UTC

store == <<clients, estimates, estimate_items, invoices, invoice_items, seq>>
estTables == <<estimates, estimate_items>>
invTables == <<invoices, invoice_items>>
env == <<clients, today, tod, outbox>>
vars == <<clients, estimates, estimate_items, invoices, invoice_items, seq, faults, today, sess,
          toast, outbox, tod>>

\* ------------------------------------------------------------- arithmetic
RECURSIVE SumRows(_)
\* SUM(quantity * unit_price) over a set of item rows, COALESCEd to 0
SumRows(rows) ==
  IF rows = {} THEN 0
  ELSE LET r == CHOOSE x \in rows : TRUE
       IN r.quantity * r.unit_price + SumRows(rows \ {r})

RECURSIVE SumList(_)
\* items.reduce((sum, item) => sum + item.quantity * item.unit_price, 0)
SumList(items) ==
  IF items = <<>> THEN 0
  ELSE Head(items).quantity * Head(items).unit_price + SumList(Tail(items))

\* numeric rounding of x / d to an integer, half away from zero (x >= 0)
RoundDiv(x, d) == (2 * x + d) \div (2 * d)

\* a value in 1/10000 stored in a DECIMAL(12,2) column, in cents
Round2(x) == RoundDiv(x, 100)

\* x * r / 10^6 rounded to an integer, computed in pieces that stay within
\* 32 bits: x = 100a + b, a * r = 10^4 c + d, so x * r / 10^6 =
\* c + (100d + b * r) / 10^6
ScaleRound(x, r) ==
  LET a == x \div 100
      b == x % 100
      c == (a * r) \div 10000
      d == (a * r) % 10000
  IN c + RoundDiv(100 * d + b * r, 1000000)

\* ------------------------------------------------------------ the triggers
\* a trigger that adds up the rounded line amounts instead
estimate_totals_of_amounts(ests, items, id) ==
  LET v_subtotal == SumRows({[quantity |-> i.amount, unit_price |-> 1] :
                             i \in {i \in items : i.estimate_id = id}})
  IN { IF e.id = id
       THEN LET v_tax_amount == RoundDiv(v_subtotal * e.tax_rate, 10000)
            IN [e EXCEPT !.subtotal = v_subtotal,
                         !.tax_amount = v_tax_amount,
                         !.total = v_subtotal + v_tax_amount]
       ELSE e : e \in ests }

\* recalculate_estimate_totals: v_subtotal, v_tax_amount are DECIMAL(12,2);
\* with no parent row the UPDATE touches nothing
recalculate_estimate_totals(ests, items, id) ==
  LET v_subtotal == Round2(SumRows({i \in items : i.estimate_id = id}))
  IN { IF e.id = id
       THEN LET v_tax_amount == RoundDiv(v_subtotal * e.tax_rate, 10000)
            IN [e EXCEPT !.subtotal = v_subtotal,
                         !.tax_amount = v_tax_amount,
                         !.total = v_subtotal + v_tax_amount]
       ELSE e : e \in ests }

\* a trigger that leaves the tax out of the total
invoice_totals_without_tax(invs, items, id) ==
  LET v_subtotal == Round2(SumRows({i \in items : i.invoice_id = id}))
  IN { IF e.id = id
       THEN [e EXCEPT !.subtotal = v_subtotal,
                      !.tax_amount = RoundDiv(v_subtotal * e.tax_rate, 10000),
                      !.total = v_subtotal]
       ELSE e : e \in invs }

\* recalculate_invoice_totals
recalculate_invoice_totals(invs, items, id) ==
  LET v_subtotal == Round2(SumRows({i \in items : i.invoice_id = id}))
  IN { IF e.id = id
       THEN LET v_tax_amount == RoundDiv(v_subtotal * e.tax_rate, 10000)
            IN [e EXCEPT !.subtotal = v_subtotal,
                         !.tax_amount = v_tax_amount,
                         !.total = v_subtotal + v_tax_amount]
       ELSE e : e \in invs }

\* ------------------------------------------------------- store statements
Exists(tbl, id) == \E r \in tbl : r.id = id
Row(tbl, id) == CHOOSE r \in tbl : r.id = id

\* uuid_generate_v4(): the k-th new row gets the k-th id the table does not hold
FreshId(tbl, k) ==
  LET free == ItemIds \ {r.id : r \in tbl}
  IN CHOOSE x \in free : Cardinality({y \in free : y < x}) = k - 1
HasFreshIds(tbl, n) == Cardinality(ItemIds \ {r.id : r \in tbl}) >= n

\* items.map((item, index) => ({estimate_id, description, quantity, unit,
\* unit_price, sort_order: index})), inserted; amount is the generated column
EstimateItemRows(tbl, estimate_id, items) ==
  { [id |-> FreshId(tbl, k), estimate_id |-> estimate_id,
     description |-> items[k].description, quantity |-> items[k].quantity,
     unit |-> items[k].unit, unit_price |-> items[k].unit_price,
     amount |-> Round2(items[k].quantity * items[k].unit_price),
     sort_order |-> k - 1] : k \in 1..Len(items) }

InvoiceItemRows(tbl, invoice_id, items) ==
  { [id |-> FreshId(tbl, k), invoice_id |-> invoice_id,
     description |-> items[k].description, quantity |-> items[k].quantity,
     unit |-> items[k].unit, unit_price |-> items[k].unit_price,
     amount |-> Round2(items[k].quantity * items[k].unit_price),
     sort_order |-> k - 1] : k \in 1..Len(items) }

\* an index on estimate_number that is not unique
idx_estimates_number_plain(ests, row) == TRUE

\* the unique indexes on (user_id, estimate_number) and (user_id, invoice_number)
idx_estimates_number_user(ests, row) ==
  \A e \in ests : e.id # row.id => ~(e.user_id = row.user_id /\ e.estimate_number = row.estimate_number)
\* an index on invoice_number that is not unique
idx_invoices_number_plain(invs, row) == TRUE

idx_invoices_number_user(invs, row) ==
  \A e \in invs : e.id # row.id => ~(e.user_id = row.user_id /\ e.invoice_number = row.invoice_number)

\* ---------------------------------------------------------------- the forms
\* The totals an EstimateForm computes from its own state and sends with the
\* parent row; the DECIMAL(12,2) columns round each of the three on storage.
\* subtotal is in 1/10^4, taxAmount = subtotal * (taxRate / 100) and
\* total = subtotal + taxAmount in 1/10^8 (the doubles' representation error is
\* far below the half cent that decides the rounding, and is left out).
FormTotals(items, taxRate) ==
  LET subtotal == SumList(items)
  IN [subtotal |-> Round2(subtotal),
      tax_amount |-> ScaleRound(subtotal, taxRate),
      total |-> ScaleRound(subtotal, 10000 + taxRate)]

\* the clients a form of user u offers (RLS: auth.uid() = user_id)
ClientChoices(u) == {c.id : c \in {c \in clients : c.user_id = u}}
OwnClient(u) == IF ClientChoices(u) = {} THEN "" ELSE CHOOSE c \in ClientChoices(u) : TRUE

\* the form states user u can submit
FormInputs(u) ==
  { [clientId |-> IF f.client = "own" THEN OwnClient(u) ELSE "", number |-> f.number,
     title |-> f.title, description |-> f.description, notes |-> f.notes,
     taxRate |-> f.tax_rate, items |-> f.items] : f \in Fillings }

\* the same form states with what the Status selector of the estimate form shows
FormInputsWithStatus(u) ==
  { [clientId |-> f.clientId, number |-> f.number, title |-> f.title,
     description |-> f.description, notes |-> f.notes, taxRate |-> f.taxRate,
     items |-> f.items, status |-> st] : f \in FormInputs(u), st \in EstimateStatus }

\* a session with no view open
Idle == [pc |-> "idle", user |-> NULL, id |-> NoId, initStatus |-> NULL,
         snap |-> <<>>, form |-> <<>>, send |-> FALSE]

\* title, number and line-item checks of handleSubmit
FormValid(f) == f.title # "" /\ f.number # "" /\ f.items # <<>>

\* a check that asks for a client only, whatever its email
FormCanSendAnyClient(f) == f.clientId # ""

\* the checks handleSubmit adds when asked to send: a client is selected and
\* the clients list of the form has an email for it
FormCanSend(f) == f.clientId # "" /\ \E c \in clients : c.id = f.clientId /\ c.email # NULL

\* clientId || null
OrNull(x) == IF x = "" THEN NULL ELSE x

\* RLS of the item tables and their foreign keys: the parent exists and is the user's
OwnsEstimate(u, id) == \E e \in estimates : e.id = id /\ e.user_id = u
OwnsInvoice(u, id) == \E e \in invoices : e.id = id /\ e.user_id = u

\* client_id UUID REFERENCES clients(id): null, or the id of a stored client
ClientExists(id) == id = NULL \/ \E c \in clients : c.id = id

\* A store statement returns an error object or none; at most MaxFaults
\* statements of a run fail for reasons outside the data (the connection, the
\* server), the others fail only where a constraint says so.
Outcomes == IF faults < MaxFaults THEN {TRUE, FALSE} ELSE {TRUE}
Counted(ok) == IF ok THEN faults ELSE faults + 1

\* after a failed write the form stays open: the edit form on its document,
\* the create form as a form that creates again when submitted
FormStays(s) ==
  CASE sess[s].pc \in {"est_edit_delete", "est_edit_insert"} ->
         [sess[s] EXCEPT !.pc = "est_edit", !.form = <<>>, !.send = FALSE]
    [] sess[s].pc \in {"inv_edit_delete", "inv_edit_insert"} ->
         [sess[s] EXCEPT !.pc = "inv_edit", !.form = <<>>, !.send = FALSE]
    [] OTHER -> Idle

\* what follows the item writes of EstimateForm.handleSubmit: the send step, or success
AfterEstimateSave(s) ==
  IF sess[s].send THEN [sess[s] EXCEPT !.pc = "send"] ELSE Idle

\* ------------------------------------------------- EstimateForm, mode create
\* a form that stores the status of the button pressed, Save & Send included
EstimateInsertRowAsPressed(id, u, f, saveStatus, sendEmail) ==
  LET t == FormTotals(f.items, f.taxRate)
  IN [id |-> id, user_id |-> u, client_id |-> OrNull(f.clientId),
      estimate_number |-> f.number, title |-> f.title, description |-> f.description,
      status |-> saveStatus,
      tax_rate |-> f.taxRate, subtotal |-> t.subtotal, tax_amount |-> t.tax_amount,
      total |-> t.total, notes |-> f.notes, archived_at |-> NoDate]

\* the row handleSubmit inserts: it carries the totals the form computed
EstimateInsertRow(id, u, f, saveStatus, sendEmail) ==
  LET t == FormTotals(f.items, f.taxRate)
  IN [id |-> id, user_id |-> u, client_id |-> OrNull(f.clientId),
      estimate_number |-> f.number, title |-> f.title, description |-> f.description,
      status |-> IF sendEmail THEN "draft" ELSE saveStatus,
      tax_rate |-> f.taxRate, subtotal |-> t.subtotal, tax_amount |-> t.tax_amount,
      total |-> t.total, notes |-> f.notes, archived_at |-> NoDate]

\* handleSubmit: validation, then the insert of the parent row
EstimateCreateSubmit(s, u, f, saveStatus, sendEmail) ==
  /\ sess[s].pc = "idle"
  /\ UNCHANGED <<env, estimate_items, invTables>>
  /\ IF ~FormValid(f) \/ (sendEmail /\ ~FormCanSend(f))
     THEN /\ toast' = "invalid"
          /\ UNCHANGED <<estimates, seq, sess, faults>>
     ELSE LET row == EstimateInsertRow(seq.estimates + 1, u, f, saveStatus, sendEmail)
          IN IF ~idx_estimates_number_user(estimates, row)
             THEN /\ toast' = "conflict"
                  /\ UNCHANGED <<estimates, seq, sess, faults>>
             ELSE \E ok \in Outcomes :
                    /\ faults' = Counted(ok)
                    /\ IF ok
                       THEN /\ estimates' = estimates \cup {row}
                            /\ seq' = [seq EXCEPT !.estimates = @ + 1]
                            /\ sess' = [sess EXCEPT ![s] =
                                  [Idle EXCEPT !.pc = "est_create_items", !.user = u,
                                               !.id = row.id, !.form = <<f>>, !.send = sendEmail]]
                            /\ toast' = "none"
                       ELSE /\ toast' = "error"
                            /\ UNCHANGED <<estimates, seq, sess>>

\* the insert of the line items, the trigger with it
EstimateInsertItems(s) ==
  LET f == sess[s].form[1]
      id == sess[s].id
  IN /\ HasFreshIds(estimate_items, Len(f.items))
     /\ \E ok \in Outcomes :
          /\ faults' = Counted(ok)
          /\ IF ok /\ OwnsEstimate(sess[s].user, id)
             THEN LET items2 == estimate_items \cup EstimateItemRows(estimate_items, id, f.items)
                  IN /\ estimate_items' = items2
                     /\ estimates' = recalculate_estimate_totals(estimates, items2, id)
                     /\ sess' = [sess EXCEPT ![s] = AfterEstimateSave(s)]
                     /\ toast' = IF sess[s].send THEN "none" ELSE "saved"
             ELSE /\ sess' = [sess EXCEPT ![s] = FormStays(s)]
                  /\ toast' = "error"
                  /\ UNCHANGED estTables
     /\ UNCHANGED <<env, invTables, seq>>

EstimateCreateItems(s) ==
  /\ sess[s].pc = "est_create_items"
  /\ EstimateInsertItems(s)

\* --------------------------------------------------- EstimateForm, mode edit
\* EditEstimatePage: the fetch of the estimate the form starts from
LoadEstimateEdit(s, u, id) ==
  /\ sess[s].pc = "idle"
  /\ OwnsEstimate(u, id)
  /\ sess' = [sess EXCEPT ![s] =
        [Idle EXCEPT !.pc = "est_edit", !.user = u, !.id = id,
                     !.initStatus = Row(estimates, id).status]]
  /\ toast' = "none"
  /\ UNCHANGED <<store, env, faults>>

\* the update handleSubmit sends for the parent row
EstimateUpdateRow(e, f, status) ==
  LET t == FormTotals(f.items, f.taxRate)
  IN [e EXCEPT !.client_id = OrNull(f.clientId), !.estimate_number = f.number,
               !.title = f.title, !.description = f.description, !.status = status,
               !.tax_rate = f.taxRate, !.subtotal = t.subtotal,
               !.tax_amount = t.tax_amount, !.total = t.total, !.notes = f.notes]

\* handleSubmit: validation, then the update of the parent row (.eq('id', id);
\* a row that is gone or another user's is not matched, and that is no error)
EstimateEditSubmit(s, f, saveStatus, sendEmail) ==
  /\ sess[s].pc = "est_edit"
  /\ UNCHANGED <<env, estimate_items, invTables, seq>>
  /\ IF ~FormValid(f) \/ (sendEmail /\ ~FormCanSend(f))
     THEN /\ toast' = "invalid"
          /\ UNCHANGED <<estimates, sess, faults>>
     ELSE LET status == IF sendEmail THEN sess[s].initStatus ELSE saveStatus
              hit == {e \in estimates : e.id = sess[s].id /\ e.user_id = sess[s].user}
          IN IF \E e \in hit : ~idx_estimates_number_user(estimates, EstimateUpdateRow(e, f, status))
             THEN /\ toast' = "conflict"
                  /\ UNCHANGED <<estimates, sess, faults>>
             ELSE \E ok \in Outcomes :
                    /\ faults' = Counted(ok)
                    /\ IF ok
                       THEN /\ estimates' = (estimates \ hit) \cup
                                              {EstimateUpdateRow(e, f, status) : e \in hit}
                            /\ sess' = [sess EXCEPT ![s] =
                                  [@ EXCEPT !.pc = "est_edit_delete", !.form = <<f>>,
                                            !.send = sendEmail]]
                            /\ toast' = "none"
                       ELSE /\ toast' = "error"
                            /\ UNCHANGED <<estimates, sess>>

\* the delete of the estimate's items; its result is not looked at
EstimateEditDelete(s) ==
  /\ sess[s].pc = "est_edit_delete"
  /\ LET id == sess[s].id
         gone == IF OwnsEstimate(sess[s].user, id)
                 THEN {i \in estimate_items : i.estimate_id = id} ELSE {}
     IN \E ok \in Outcomes :
          /\ faults' = Counted(ok)
          /\ IF ok /\ gone # {}
             THEN /\ estimate_items' = estimate_items \ gone
                  /\ estimates' = recalculate_estimate_totals(estimates, estimate_items \ gone, id)
             ELSE UNCHANGED estTables
  /\ sess' = [sess EXCEPT ![s] = [@ EXCEPT !.pc = "est_edit_insert"]]
  /\ toast' = "none"
  /\ UNCHANGED <<env, invTables, seq>>

EstimateEditInsert(s) ==
  /\ sess[s].pc = "est_edit_insert"
  /\ EstimateInsertItems(s)

\* --------------------------------------------------- InvoiceForm, mode create
\* the row handleSubmit inserts: it names no totals and no paid_date, so their
\* column defaults apply
InvoiceInsertRow(id, u, f, status) ==
  [id |-> id, user_id |-> u, client_id |-> OrNull(f.clientId), source_estimate_id |-> NoId,
   invoice_number |-> f.number, title |-> f.title, description |-> f.description,
   status |-> status, issue_date |-> today, due_date |-> today + DueDays,
   paid_date |-> NoDate, tax_rate |-> f.taxRate, subtotal |-> 0, tax_amount |-> 0,
   total |-> 0, notes |-> f.notes, archived_at |-> NoDate]

\* handleSubmit: validation, then the insert of the parent row
InvoiceCreateSubmit(s, u, f, status) ==
  /\ sess[s].pc = "idle"
  /\ UNCHANGED <<env, estTables, invoice_items>>
  /\ IF ~FormValid(f)
     THEN /\ toast' = "invalid"
          /\ UNCHANGED <<invoices, seq, sess, faults>>
     ELSE LET row == InvoiceInsertRow(seq.invoices + 1, u, f, status)
          IN IF ~idx_invoices_number_user(invoices, row)
             THEN /\ toast' = "conflict"
                  /\ UNCHANGED <<invoices, seq, sess, faults>>
             ELSE \E ok \in Outcomes :
                    /\ faults' = Counted(ok)
                    /\ IF ok
                       THEN /\ invoices' = invoices \cup {row}
                            /\ seq' = [seq EXCEPT !.invoices = @ + 1]
                            /\ sess' = [sess EXCEPT ![s] =
                                  [Idle EXCEPT !.pc = "inv_create_items", !.user = u,
                                               !.id = row.id, !.form = <<f>>]]
                            /\ toast' = "none"
                       ELSE /\ toast' = "error"
                            /\ UNCHANGED <<invoices, seq, sess>>

\* the insert of the line items, the trigger with it
InvoiceInsertItems(s, items, failed) ==
  LET id == sess[s].id
  IN /\ HasFreshIds(invoice_items, Len(items))
     /\ \E ok \in Outcomes :
          /\ faults' = Counted(ok)
          /\ IF ok /\ OwnsInvoice(sess[s].user, id)
             THEN LET items2 == invoice_items \cup InvoiceItemRows(invoice_items, id, items)
                  IN /\ invoice_items' = items2
                     /\ invoices' = recalculate_invoice_totals(invoices, items2, id)
                     /\ toast' = "saved"
                     /\ sess' = [sess EXCEPT ![s] = Idle]
             ELSE /\ toast' = "error"
                  /\ sess' = [sess EXCEPT ![s] = failed]
                  /\ UNCHANGED invTables
     /\ UNCHANGED <<env, estTables, seq>>

InvoiceCreateItems(s) ==
  /\ sess[s].pc = "inv_create_items"
  /\ InvoiceInsertItems(s, sess[s].form[1].items, FormStays(s))

\* ------------------------------------- InvoiceForm, mode create: the dates
\* the dates the form holds in its one-element snap
FormDates(s) == sess[s].snap[1]

\* the default due date effect: it writes only while the due date is empty
\* and there is an issue date
DefaultDueDate(d) ==
  IF d.dueDate = NoDate /\ d.issueDate # NoDate
  THEN [d EXCEPT !.dueDate = d.issueDate + DueDays]
  ELSE d

\* NewInvoicePage: the form mounts with today as issue date and no due date,
\* and the effect runs after the first render
OpenInvoiceForm(s, u) ==
  /\ sess[s].pc = "idle"
  /\ sess' = [sess EXCEPT ![s] =
        [Idle EXCEPT !.pc = "inv_new", !.user = u,
                     !.snap = <<DefaultDueDate([issueDate |-> today, dueDate |-> NoDate])>>]]
  /\ toast' = "none"
  /\ UNCHANGED <<store, env, faults>>

\* the Issue Date input: setIssueDate, then the effect on the new state;
\* NoDate is the cleared input
setIssueDate(s, date) ==
  /\ sess[s].pc = "inv_new"
  /\ date # FormDates(s).issueDate
  /\ sess' = [sess EXCEPT ![s] =
        [@ EXCEPT !.snap = <<DefaultDueDate([FormDates(s) EXCEPT !.issueDate = date])>>]]
  /\ toast' = "none"
  /\ UNCHANGED <<store, env, faults>>

\* the row handleSubmit inserts, with the dates of the form
InvoiceFormRow(s, f, status) ==
  [InvoiceInsertRow(seq.invoices + 1, sess[s].user, f, status)
     EXCEPT !.issue_date = FormDates(s).issueDate, !.due_date = FormDates(s).dueDate]

\* handleSubmit of the mounted form: validation, then the insert of the parent
\* row; '' is no value of the DATE column issue_date, so a cleared issue date
\* fails the insert
InvoiceNewSubmit(s, f, status) ==
  /\ sess[s].pc = "inv_new"
  /\ UNCHANGED <<env, estTables, invoice_items>>
  /\ IF ~FormValid(f)
     THEN /\ toast' = "invalid"
          /\ UNCHANGED <<invoices, seq, sess, faults>>
     ELSE LET row == InvoiceFormRow(s, f, status)
          IN IF row.issue_date = NoDate
             THEN /\ toast' = "error"
                  /\ UNCHANGED <<invoices, seq, sess, faults>>
             ELSE IF ~idx_invoices_number_user(invoices, row)
             THEN /\ toast' = "conflict"
                  /\ UNCHANGED <<invoices, seq, sess, faults>>
             ELSE \E ok \in Outcomes :
                    /\ faults' = Counted(ok)
                    /\ IF ok
                       THEN /\ invoices' = invoices \cup {row}
                            /\ seq' = [seq EXCEPT !.invoices = @ + 1]
                            /\ sess' = [sess EXCEPT ![s] =
                                  [Idle EXCEPT !.pc = "inv_create_items", !.user = sess[s].user,
                                               !.id = row.id, !.form = <<f>>]]
                            /\ toast' = "none"
                       ELSE /\ toast' = "error"
                            /\ UNCHANGED <<invoices, seq, sess>>

\* Cancel of the create form
CancelInvoiceForm(s) ==
  /\ sess[s].pc = "inv_new"
  /\ sess' = [sess EXCEPT ![s] = Idle]
  /\ toast' = "none"
  /\ UNCHANGED <<store, env, faults>>

\* ----------------------------------------------------- InvoiceForm, mode edit
\* EditInvoicePage: the fetch of the invoice the form starts from
LoadInvoiceEdit(s, u, id) ==
  /\ sess[s].pc = "idle"
  /\ OwnsInvoice(u, id)
  /\ sess' = [sess EXCEPT ![s] =
        [Idle EXCEPT !.pc = "inv_edit", !.user = u, !.id = id,
                     !.initStatus = Row(invoices, id).status]]
  /\ toast' = "none"
  /\ UNCHANGED <<store, env, faults>>

\* the update handleSubmit sends for the parent row
InvoiceUpdateRow(e, f, status) ==
  [e EXCEPT !.client_id = OrNull(f.clientId), !.invoice_number = f.number,
            !.title = f.title, !.description = f.description, !.status = status,
            !.tax_rate = f.taxRate, !.notes = f.notes]

\* handleSubmit: validation, then the update of the parent row
InvoiceEditSubmit(s, f, status) ==
  /\ sess[s].pc = "inv_edit"
  /\ UNCHANGED <<env, estTables, invoice_items, seq>>
  /\ IF ~FormValid(f)
     THEN /\ toast' = "invalid"
          /\ UNCHANGED <<invoices, sess, faults>>
     ELSE LET hit == {e \in invoices : e.id = sess[s].id /\ e.user_id = sess[s].user}
          IN IF \E e \in hit : ~idx_invoices_number_user(invoices, InvoiceUpdateRow(e, f, status))
             THEN /\ toast' = "conflict"
                  /\ UNCHANGED <<invoices, sess, faults>>
             ELSE \E ok \in Outcomes :
                    /\ faults' = Counted(ok)
                    /\ IF ok
                       THEN /\ invoices' = (invoices \ hit) \cup
                                             {InvoiceUpdateRow(e, f, status) : e \in hit}
                            /\ sess' = [sess EXCEPT ![s] =
                                  [@ EXCEPT !.pc = "inv_edit_delete", !.form = <<f>>]]
                            /\ toast' = "none"
                       ELSE /\ toast' = "error"
                            /\ UNCHANGED <<invoices, sess>>

\* the delete of the invoice's items; its result is not looked at
InvoiceEditDelete(s) ==
  /\ sess[s].pc = "inv_edit_delete"
  /\ LET id == sess[s].id
         gone == IF OwnsInvoice(sess[s].user, id)
                 THEN {i \in invoice_items : i.invoice_id = id} ELSE {}
     IN \E ok \in Outcomes :
          /\ faults' = Counted(ok)
          /\ IF ok /\ gone # {}
             THEN /\ invoice_items' = invoice_items \ gone
                  /\ invoices' = recalculate_invoice_totals(invoices, invoice_items \ gone, id)
             ELSE UNCHANGED invTables
  /\ sess' = [sess EXCEPT ![s] = [@ EXCEPT !.pc = "inv_edit_insert"]]
  /\ toast' = "none"
  /\ UNCHANGED <<env, estTables, seq>>

InvoiceEditInsert(s) ==
  /\ sess[s].pc = "inv_edit_insert"
  /\ InvoiceInsertItems(s, sess[s].form[1].items, FormStays(s))

\* ------------------------------------------------------------ EstimateDetail
\* the orders in which a select without ORDER BY can return a set of rows
FetchOrders(rows) ==
  {q \in [1..Cardinality(rows) -> rows] : \A i, j \in 1..Cardinality(rows) : q[i] = q[j] => i = j}

\* what the handlers of a view read of a fetched item row
ItemOf(r) == [description |-> r.description, quantity |-> r.quantity,
              unit |-> r.unit, unit_price |-> r.unit_price]

\* EstimatePage: select *, client:clients(*), items:estimate_items(*) .eq('id', id);
\* the view keeps the estimate as it was fetched (the fields its handlers read)
EstimateSnapshot(u, id, fetched) ==
  LET e == Row(estimates, id)
      client == {c \in clients : c.id = e.client_id /\ c.user_id = u}
  IN [id |-> e.id, status |-> e.status, title |-> e.title, description |-> e.description,
      tax_rate |-> e.tax_rate, notes |-> e.notes, archived_at |-> e.archived_at,
      client |-> IF client = {} THEN NULL ELSE (CHOOSE c \in client : TRUE).id,
      client_email |-> IF client = {} THEN NULL ELSE (CHOOSE c \in client : TRUE).email,
      items |-> [k \in 1..Len(fetched) |-> ItemOf(fetched[k])]]

LoadEstimateDetail(s, u, id) ==
  /\ sess[s].pc = "idle"
  /\ OwnsEstimate(u, id)
  /\ \E fetched \in FetchOrders({i \in estimate_items : i.estimate_id = id}) :
       sess' = [sess EXCEPT ![s] =
            [Idle EXCEPT !.pc = "est_detail", !.user = u, !.id = id,
                         !.snap = <<EstimateSnapshot(u, id, fetched)>>]]
  /\ toast' = "none"
  /\ UNCHANGED <<store, env, faults>>

\* leaving a view or a form without submitting (Back, Cancel)
CloseView(s) ==
  /\ sess[s].pc \in {"est_detail", "est_edit", "inv_edit", "inv_detail", "est_list", "inv_list",
                     "client_list"}
  /\ sess' = [sess EXCEPT ![s] = Idle]
  /\ toast' = "none"
  /\ UNCHANGED <<store, env, faults>>

\* a status change that leaves a declined estimate as it is
handleStatusChangeForward(s, newStatus) ==
  /\ sess[s].pc = "est_detail"
  /\ LET hit == {e \in estimates : e.id = sess[s].id /\ e.user_id = sess[s].user
                                     /\ e.status # "declined"}
     IN \E ok \in Outcomes :
          /\ faults' = Counted(ok)
          /\ IF ok
             THEN /\ estimates' = (estimates \ hit) \cup {[e EXCEPT !.status = newStatus] : e \in hit}
                  /\ toast' = "status"
                  /\ sess' = [sess EXCEPT ![s] = Idle]
             ELSE /\ toast' = "error"
                  /\ UNCHANGED <<estimates, sess>>
  /\ UNCHANGED <<env, estimate_items, invTables, seq>>

\* handleStatusChange: update({status: newStatus}).eq('id', estimate.id), then
\* router.refresh(), after which the view is one of the stored estimate again
handleStatusChange(s, newStatus) ==
  /\ sess[s].pc = "est_detail"
  /\ LET hit == {e \in estimates : e.id = sess[s].id /\ e.user_id = sess[s].user}
     IN \E ok \in Outcomes :
          /\ faults' = Counted(ok)
          /\ IF ok
             THEN /\ estimates' = (estimates \ hit) \cup {[e EXCEPT !.status = newStatus] : e \in hit}
                  /\ toast' = "status"
                  /\ sess' = [sess EXCEPT ![s] = Idle]
             ELSE /\ toast' = "error"
                  /\ UNCHANGED <<estimates, sess>>
  /\ UNCHANGED <<env, estimate_items, invTables, seq>>

\* a conversion that keys the invoice by its estimate, as the invoice of an
\* earlier conversion is
ConvertInsertRowKeyedByEstimate(id, u, estimate, invoiceNumber) ==
  [id |-> estimate.id, user_id |-> u, client_id |-> estimate.client,
   source_estimate_id |-> estimate.id, invoice_number |-> invoiceNumber,
   title |-> estimate.title, description |-> estimate.description, status |-> "unpaid",
   issue_date |-> today, due_date |-> today + DueDays, paid_date |-> NoDate,
   tax_rate |-> estimate.tax_rate, subtotal |-> 0, tax_amount |-> 0, total |-> 0,
   notes |-> estimate.notes, archived_at |-> NoDate]

\* the row handleConvertToInvoice inserts, from the estimate the view holds
ConvertInsertRow(id, u, estimate, invoiceNumber) ==
  [id |-> id, user_id |-> u, client_id |-> estimate.client,
   source_estimate_id |-> estimate.id, invoice_number |-> invoiceNumber,
   title |-> estimate.title, description |-> estimate.description, status |-> "unpaid",
   issue_date |-> today, due_date |-> today + DueDays, paid_date |-> NoDate,
   tax_rate |-> estimate.tax_rate, subtotal |-> 0, tax_amount |-> 0, total |-> 0,
   notes |-> estimate.notes, archived_at |-> NoDate]

\* handleConvertToInvoice, offered while the estimate the view holds is
\* approved: the insert of the invoice row; invoiceNumber comes from the clock.
\* With no items to copy the handler ends here.
ConvertInsertInvoice(s, invoiceNumber) ==
  /\ sess[s].pc = "est_detail"
  /\ sess[s].snap[1].status = "approved"
  /\ UNCHANGED <<env, estTables, invoice_items>>
  /\ LET estimate == sess[s].snap[1]
         row == ConvertInsertRow(seq.invoices + 1, sess[s].user, estimate, invoiceNumber)
     IN IF ~idx_invoices_number_user(invoices, row)
        THEN /\ toast' = "conflict"
             /\ UNCHANGED <<invoices, seq, sess, faults>>
        ELSE \E ok \in Outcomes :
               /\ faults' = Counted(ok)
               /\ IF ok /\ Exists(estimates, estimate.id) /\ ClientExists(row.client_id)
                  THEN /\ invoices' = invoices \cup {row}
                       /\ seq' = [seq EXCEPT !.invoices = @ + 1]
                       /\ IF estimate.items = <<>>
                          THEN /\ sess' = [sess EXCEPT ![s] = Idle]
                               /\ toast' = "saved"
                          ELSE /\ sess' = [sess EXCEPT ![s] =
                                      [@ EXCEPT !.pc = "conv_items", !.id = row.id]]
                               /\ toast' = "none"
                  ELSE /\ toast' = "error"
                       /\ UNCHANGED <<invoices, seq, sess>>

\* handleConvertToInvoice: the insert of the copied items; on success the
\* browser moves to the invoice, on failure the estimate view stays
ConvertInsertItems(s) ==
  /\ sess[s].pc = "conv_items"
  /\ InvoiceInsertItems(s, sess[s].snap[1].items,
                        [sess[s] EXCEPT !.pc = "est_detail", !.id = sess[s].snap[1].id])

\* -------------------------------------------------------- sendEstimateAction
\* where the caller of sendEstimateAction stands after { success: false }:
\* EstimateForm moves on to the saved estimate, EstimateDetail stays
SendFailed(s) ==
  IF sess[s].send THEN Idle ELSE [sess[s] EXCEPT !.pc = "est_detail"]

\* an action that mails whatever estimate it is given, client email or not
SendChecksNone(user, found, client) == found # {}

\* the checks of sendEstimateAction before it mails: a user is logged in, the
\* estimate was found, its client has an email
SendChecks(user, found, client) ==
  user # NULL /\ found # {} /\ \E c \in client : c.email # NULL

\* what the fetch of sendEstimateAction gives the user: the estimate, and the
\* client joined to it, as far as the policies let the user see them
SendFetchEstimate(user, id) == {e \in estimates : e.id = id /\ e.user_id = user}
SendFetchClient(user, found) ==
  {c \in clients : c.user_id = user /\ \E e \in found : c.id = e.client_id}

\* how a run of sendEstimateAction up to its mail can go: the fetch or the
\* mailer can fail for reasons outside the data
SendOutcomes == IF faults < MaxFaults THEN {"ok", "fetch_error", "mail_error"} ELSE {"ok"}

\* sendEstimateAction up to and with the mail: getUser (a login can have run
\* out), the fetch of the estimate with its client, the checks, and
\* sendEstimateEmail, which hands the mail to the mailer or throws
SendEstimateDispatch(s) ==
  /\ Len(outbox) < MaxMails
  /\ UNCHANGED <<store, today, tod>>
  /\ \E user \in {sess[s].user, NULL} : \E out \in SendOutcomes :
       LET found == IF out = "fetch_error" THEN {} ELSE SendFetchEstimate(user, sess[s].id)
           client == SendFetchClient(user, found)
           to == IF client = {} THEN NULL ELSE (CHOOSE c \in client : TRUE).email
       IN /\ faults' = Counted(out = "ok")
          /\ IF ~SendChecks(user, found, client)
             THEN /\ sess' = [sess EXCEPT ![s] = SendFailed(s)]
                  /\ toast' = "send_refused"
                  /\ UNCHANGED outbox
             ELSE IF out = "mail_error"
             THEN /\ sess' = [sess EXCEPT ![s] = SendFailed(s)]
                  /\ toast' = "send_failed"
                  /\ UNCHANGED outbox
             ELSE /\ outbox' = Append(outbox, [estimate |-> sess[s].id, to |-> to, user |-> user])
                  /\ sess' = [sess EXCEPT ![s] = [@ EXCEPT !.pc = "send_update"]]
                  /\ toast' = "none"

\* EstimateForm.handleSubmit after the save, when asked to send
EstimateFormSend(s) ==
  /\ sess[s].pc = "send"
  /\ SendEstimateDispatch(s)

\* handleSendToClient, offered while the estimate the view holds is a draft
\* and its client has an email
handleSendToClient(s) ==
  /\ sess[s].pc = "est_detail"
  /\ sess[s].snap[1].status = "draft"
  /\ sess[s].snap[1].client_email # NULL
  /\ SendEstimateDispatch(s)

\* the update of the status to sent, its result not looked at, and
\* { success: true }; the caller refreshes what it shows
SendEstimateUpdate(s) ==
  /\ sess[s].pc = "send_update"
  /\ LET hit == {e \in estimates : e.id = sess[s].id /\ e.user_id = sess[s].user}
     IN \E ok \in Outcomes :
          /\ faults' = Counted(ok)
          /\ estimates' = IF ok
                          THEN (estimates \ hit) \cup {[e EXCEPT !.status = "sent"] : e \in hit}
                          ELSE estimates
  /\ sess' = [sess EXCEPT ![s] = Idle]
  /\ toast' = "sent"
  /\ UNCHANGED <<env, estimate_items, invTables, seq>>

\* ------------------------------------------------------------- InvoiceDetail
\* new Date(): the instant, in ticks, and the instant at which a date starts
\* when new Date(date) reads it (midnight UTC)
Now == today * TicksPerDay + tod
StartOf(date) == date * TicksPerDay

\* isOverdue, as both invoice views compute it each time they render
isOverdue(status, due_date) ==
  status = "unpaid" /\ due_date # NoDate /\ StartOf(due_date) < Now

\* what a view holds of a fetched invoice: the row's fields its handlers and
\* its rendering read, and the overdue mark it rendered
InvoiceSnapshot(i) ==
  [id |-> i.id, status |-> i.status, paid_date |-> i.paid_date, due_date |-> i.due_date,
   archived_at |-> i.archived_at, overdue |-> isOverdue(i.status, i.due_date)]

\* InvoicePage: select *, client:clients(*), items:invoice_items(*) .eq('id', id);
\* InvoiceDetail keeps status, paid_date and archived_at as state of its own
LoadInvoiceDetail(s, u, id) ==
  /\ sess[s].pc = "idle"
  /\ OwnsInvoice(u, id)
  /\ sess' = [sess EXCEPT ![s] =
        [Idle EXCEPT !.pc = "inv_detail", !.user = u, !.id = id,
                     !.snap = <<InvoiceSnapshot(Row(invoices, id))>>]]
  /\ toast' = "none"
  /\ UNCHANGED <<store, env, faults>>

\* newStatus and newPaidDate of handleTogglePaid, from the status the view holds
ToggledStatus(status) == IF status = "paid" THEN "unpaid" ELSE "paid"
ToggledPaidDate(status) == IF ToggledStatus(status) = "paid" THEN today ELSE NoDate

\* update({status, paid_date}).eq('id', id), under the policies of user u
TogglePaidUpdate(invs, u, id, status) ==
  LET hit == {i \in invs : i.id = id /\ i.user_id = u}
  IN (invs \ hit) \cup
       {[i EXCEPT !.status = ToggledStatus(status), !.paid_date = ToggledPaidDate(status)] : i \in hit}

\* what the view shows of an invoice after a toggle it made
ToggledSnapshot(v) ==
  [v EXCEPT !.status = ToggledStatus(v.status), !.paid_date = ToggledPaidDate(v.status),
            !.overdue = isOverdue(ToggledStatus(v.status), v.due_date)]

\* InvoiceDetail.handleTogglePaid: the update, then the view's own state
InvoiceDetail_handleTogglePaid(s) ==
  /\ sess[s].pc = "inv_detail"
  /\ LET v == sess[s].snap[1]
     IN \E ok \in Outcomes :
          /\ faults' = Counted(ok)
          /\ IF ok
             THEN /\ invoices' = TogglePaidUpdate(invoices, sess[s].user, v.id, v.status)
                  /\ sess' = [sess EXCEPT ![s] = [@ EXCEPT !.snap = <<ToggledSnapshot(v)>>]]
                  /\ toast' = "toggled"
             ELSE /\ toast' = "error"
                  /\ UNCHANGED <<invoices, sess>>
  /\ UNCHANGED <<env, estTables, invoice_items, seq>>

\* an archive that writes the row back without its totals
ArchiveUpdateClearingTotals(rows, u, id, archivedAt) ==
  LET hit == {r \in rows : r.id = id /\ r.user_id = u}
  IN (rows \ hit) \cup
       {[r EXCEPT !.archived_at = IF archivedAt # NoDate THEN NoDate ELSE Now,
                  !.subtotal = 0, !.tax_amount = 0, !.total = 0] : r \in hit}

\* update({archived_at: newArchivedAt}).eq('id', id) of both handleArchive,
\* newArchivedAt from the archivedAt the view holds
ArchiveUpdate(rows, u, id, archivedAt) ==
  LET hit == {r \in rows : r.id = id /\ r.user_id = u}
  IN (rows \ hit) \cup
       {[r EXCEPT !.archived_at = IF archivedAt # NoDate THEN NoDate ELSE Now] : r \in hit}

\* where handleArchive leaves its view: an archive moves on to the list page,
\* a restore stays with archivedAt cleared
AfterArchive(s) ==
  IF sess[s].snap[1].archived_at # NoDate
  THEN [sess[s] EXCEPT !.snap = <<[sess[s].snap[1] EXCEPT !.archived_at = NoDate]>>]
  ELSE Idle

\* InvoiceDetail.handleArchive
InvoiceDetail_handleArchive(s) ==
  /\ sess[s].pc = "inv_detail"
  /\ LET v == sess[s].snap[1]
     IN \E ok \in Outcomes :
          /\ faults' = Counted(ok)
          /\ IF ok
             THEN /\ invoices' = ArchiveUpdate(invoices, sess[s].user, v.id, v.archived_at)
                  /\ sess' = [sess EXCEPT ![s] = AfterArchive(s)]
                  /\ toast' = IF v.archived_at # NoDate THEN "restored" ELSE "archived"
             ELSE /\ toast' = "error"
                  /\ UNCHANGED <<invoices, sess>>
  /\ UNCHANGED <<env, estTables, invoice_items, seq>>

\* EstimateDetail.handleArchive
EstimateDetail_handleArchive(s) ==
  /\ sess[s].pc = "est_detail"
  /\ LET v == sess[s].snap[1]
     IN \E ok \in Outcomes :
          /\ faults' = Counted(ok)
          /\ IF ok
             THEN /\ estimates' = ArchiveUpdate(estimates, sess[s].user, v.id, v.archived_at)
                  /\ sess' = [sess EXCEPT ![s] = AfterArchive(s)]
                  /\ toast' = IF v.archived_at # NoDate THEN "restored" ELSE "archived"
             ELSE /\ toast' = "error"
                  /\ UNCHANGED <<estimates, sess>>
  /\ UNCHANGED <<env, estimate_items, invTables, seq>>

\* ------------------------------------------------------------ handleDelete
\* a delete of the parent that leaves its line items where they are
ItemsKept(items, goneIds) == items

\* estimate_id / invoice_id ... ON DELETE CASCADE: the items of the deleted
\* parents go with them
estimate_items_on_delete_cascade(items, goneIds) == {i \in items : i.estimate_id \notin goneIds}
invoice_items_on_delete_cascade(items, goneIds) == {i \in items : i.invoice_id \notin goneIds}

\* source_estimate_id ... ON DELETE SET NULL
source_estimate_on_delete_set_null(invs, goneIds) ==
  {IF i.source_estimate_id \in goneIds THEN [i EXCEPT !.source_estimate_id = NoId] ELSE i : i \in invs}

\* EstimateDetail.handleDelete: confirm, then delete().eq('id', estimate.id)
\* and on to the list page
EstimateDetail_handleDelete(s, confirmed) ==
  /\ sess[s].pc = "est_detail"
  /\ UNCHANGED <<env, invoice_items, seq>>
  /\ IF ~confirmed
     THEN /\ toast' = "none"
          /\ UNCHANGED <<estimates, estimate_items, invoices, faults, sess>>
     ELSE LET gone == {e \in estimates : e.id = sess[s].id /\ e.user_id = sess[s].user}
              goneIds == {e.id : e \in gone}
          IN \E ok \in Outcomes :
               /\ faults' = Counted(ok)
               /\ IF ok
                  THEN /\ estimates' = estimates \ gone
                       /\ estimate_items' = estimate_items_on_delete_cascade(estimate_items, goneIds)
                       /\ invoices' = source_estimate_on_delete_set_null(invoices, goneIds)
                       /\ sess' = [sess EXCEPT ![s] = Idle]
                       /\ toast' = "deleted"
                  ELSE /\ toast' = "error"
                       /\ UNCHANGED <<estimates, estimate_items, invoices, sess>>

\* InvoiceDetail.handleDelete
InvoiceDetail_handleDelete(s, confirmed) ==
  /\ sess[s].pc = "inv_detail"
  /\ UNCHANGED <<env, estTables, seq>>
  /\ IF ~confirmed
     THEN /\ toast' = "none"
          /\ UNCHANGED <<invoices, invoice_items, faults, sess>>
     ELSE LET gone == {i \in invoices : i.id = sess[s].id /\ i.user_id = sess[s].user}
              goneIds == {i.id : i \in gone}
          IN \E ok \in Outcomes :
               /\ faults' = Counted(ok)
               /\ IF ok
                  THEN /\ invoices' = invoices \ gone
                       /\ invoice_items' = invoice_items_on_delete_cascade(invoice_items, goneIds)
                       /\ sess' = [sess EXCEPT ![s] = Idle]
                       /\ toast' = "deleted"
                  ELSE /\ toast' = "error"
                       /\ UNCHANGED <<invoices, invoice_items, sess>>

\* ----------------------------------------------------------------- ClientList
\* a foreign key that takes the referencing rows along with the client
OnDeleteCascade(rows, gone) == {r \in rows : r.client_id \notin {c.id : c \in gone}}

\* client_id ... ON DELETE SET NULL, of estimates and of invoices
OnDeleteSetNull(rows, gone) ==
  {IF r.client_id \in {c.id : c \in gone} THEN [r EXCEPT !.client_id = NULL] ELSE r : r \in rows}

\* ClientsPage: select * from clients, under the policies of user u; ClientList
\* keeps the clients it was given as state of its own
LoadClientList(s, u) ==
  /\ sess[s].pc = "idle"
  /\ sess' = [sess EXCEPT ![s] =
        [Idle EXCEPT !.pc = "client_list", !.user = u,
                     !.snap = <<{c.id : c \in {c \in clients : c.user_id = u}}>>]]
  /\ toast' = "none"
  /\ UNCHANGED <<store, env, faults>>

\* ClientList.handleDelete(client), client a row of the list: confirm, then
\* delete().eq('id', client.id); the list drops the client and stays open
ClientList_handleDelete(s, id, confirmed) ==
  /\ sess[s].pc = "client_list"
  /\ id \in sess[s].snap[1]
  /\ UNCHANGED <<estimate_items, invoice_items, seq, today, tod, outbox>>
  /\ IF ~confirmed
     THEN /\ toast' = "none"
          /\ UNCHANGED <<clients, estimates, invoices, faults, sess>>
     ELSE LET gone == {c \in clients : c.id = id /\ c.user_id = sess[s].user}
          IN \E ok \in Outcomes :
               /\ faults' = Counted(ok)
               /\ IF ok
                  THEN /\ clients' = clients \ gone
                       /\ estimates' = OnDeleteSetNull(estimates, gone)
                       /\ invoices' = OnDeleteSetNull(invoices, gone)
                       /\ sess' = [sess EXCEPT ![s] = [@ EXCEPT !.snap = <<@[1] \ {id}>>]]
                       /\ toast' = "client_deleted"
                  ELSE /\ toast' = "error"
                       /\ UNCHANGED <<clients, estimates, invoices, sess>>

\* ------------------------------------------------------------ the list pages
\* EstimatesPage: select *, client:clients(*) .is('archived_at', null)
EstimatesPage(u) == {e \in estimates : e.user_id = u /\ e.archived_at = NoDate}

\* a page that selects the invoices with no policy on the table
InvoicesPageUnscoped(u) == invoices

\* InvoicesPage: select *, client:clients(*)
InvoicesPage(u) == {i \in invoices : i.user_id = u}

LoadEstimatesList(s, u) ==
  /\ sess[s].pc = "idle"
  /\ sess' = [sess EXCEPT ![s] =
        [Idle EXCEPT !.pc = "est_list", !.user = u,
                     !.snap = <<{[id |-> e.id, status |-> e.status, archived_at |-> e.archived_at] :
                                   e \in EstimatesPage(u)}>>]]
  /\ toast' = "none"
  /\ UNCHANGED <<store, env, faults>>

\* InvoicesList keeps the invoices it was given as state of its own
LoadInvoicesList(s, u) ==
  /\ sess[s].pc = "idle"
  /\ sess' = [sess EXCEPT ![s] =
        [Idle EXCEPT !.pc = "inv_list", !.user = u,
                     !.snap = <<{InvoiceSnapshot(i) : i \in InvoicesPage(u)}>>]]
  /\ toast' = "none"
  /\ UNCHANGED <<store, env, faults>>

\* InvoicesList.handleTogglePaid(invoice), invoice a row of the list
InvoicesList_handleTogglePaid(s) ==
  /\ sess[s].pc = "inv_list"
  /\ \E v \in sess[s].snap[1] : \E ok \in Outcomes :
       /\ faults' = Counted(ok)
       /\ IF ok
          THEN /\ invoices' = TogglePaidUpdate(invoices, sess[s].user, v.id, v.status)
               /\ sess' = [sess EXCEPT ![s] =
                     [@ EXCEPT !.id = v.id,
                               !.snap = <<(sess[s].snap[1] \ {v}) \cup {ToggledSnapshot(v)}>>]]
               /\ toast' = "toggled"
          ELSE /\ toast' = "error"
               /\ UNCHANGED <<invoices, sess>>
  /\ UNCHANGED <<env, estTables, invoice_items, seq>>

\* ------------------------------------------------------------------ the clock
Tick ==
  /\ today < MaxDay \/ tod < TicksPerDay - 1
  /\ IF tod = TicksPerDay - 1
     THEN today' = today + 1 /\ tod' = 0
     ELSE tod' = tod + 1 /\ UNCHANGED today
  /\ toast' = "none"
  /\ UNCHANGED <<store, outbox, faults, sess>>

\* ------------------------------------------------------------ specification
Init ==
  /\ clients = { [id |-> "c1", user_id |-> "u1", name |-> "Ann", email |-> "ann@x"],
                 [id |-> "c2", user_id |-> "u2", name |-> "Bob", email |-> NULL] }
  /\ estimates = {}
  /\ estimate_items = {}
  /\ invoices = {}
  /\ invoice_items = {}
  /\ seq = [estimates |-> 0, invoices |-> 0]
  /\ faults = 0
  /\ today = 1
  /\ sess = [s \in Sessions |-> Idle]
  /\ toast = "none"
  /\ outbox = <<>>
  /\ tod = 1

\* the bounds on the number of documents a run creates
RoomForEstimate(maxEst, maxDocs) ==
  seq.estimates < maxEst /\ seq.estimates + seq.invoices < maxDocs
RoomForInvoice(maxInv, maxDocs) ==
  seq.invoices < maxInv /\ seq.estimates + seq.invoices < maxDocs

\* One browser session and both tenants: every form and view, each handler
\* run to its end before the next starts.
Next ==
  \/ /\ RoomForEstimate(MaxEst, MaxDocs)
     /\ \E u \in Users : \E f \in FormInputs(u) : EstimateCreateSubmit(1, u, f, "draft", FALSE)
  \/ EstimateCreateItems(1)
  \/ \E u \in Users, id \in 1..MaxEst : LoadEstimateEdit(1, u, id)
  \/ \E f \in FormInputs(sess[1].user) : EstimateEditSubmit(1, f, "draft", FALSE)
  \/ EstimateEditDelete(1)
  \/ EstimateEditInsert(1)
  \/ /\ RoomForInvoice(MaxInv, MaxDocs)
     /\ \E u \in Users : \E f \in FormInputs(u) : InvoiceCreateSubmit(1, u, f, "unpaid")
  \/ InvoiceCreateItems(1)
  \/ \E u \in Users, id \in 1..MaxInv : LoadInvoiceEdit(1, u, id)
  \/ \E f \in FormInputs(sess[1].user) : InvoiceEditSubmit(1, f, sess[1].initStatus)
  \/ InvoiceEditDelete(1)
  \/ InvoiceEditInsert(1)
  \/ \E u \in Users, id \in 1..MaxEst : LoadEstimateDetail(1, u, id)
  \/ CloseView(1)
  \/ \E st \in EstimateStatus : handleStatusChange(1, st)
  \/ /\ RoomForInvoice(MaxInv, MaxDocs)
     /\ \E n \in Numbers : ConvertInsertInvoice(1, n)
  \/ ConvertInsertItems(1)

Spec == Init /\ [][Next]_vars

\* Two sessions of one tenant on one estimate and the invoices made from it:
\* session 1 creates, views and converts, session 2 views and edits, and the
\* statements of their handlers interleave in every way.
NextRace ==
  \/ /\ RoomForEstimate(RaceEst, RaceEst + RaceInv)
     /\ \E f \in FormInputs("u1") : EstimateCreateSubmit(1, "u1", f, "draft", FALSE)
  \/ EstimateCreateItems(1)
  \/ \E id \in 1..RaceEst : LoadEstimateEdit(2, "u1", id)
  \/ \E f \in FormInputs(sess[2].user) : EstimateEditSubmit(2, f, "draft", FALSE)
  \/ EstimateEditDelete(2)
  \/ EstimateEditInsert(2)
  \/ \E s \in Sessions, id \in 1..RaceEst : LoadEstimateDetail(s, "u1", id)
  \/ \E s \in Sessions : CloseView(s)
  \/ \E s \in Sessions, st \in {"approved", "declined"} : handleStatusChange(s, st)
  \/ /\ RoomForInvoice(RaceInv, RaceEst + RaceInv)
     /\ \E n \in Numbers : ConvertInsertInvoice(1, n)
  \/ ConvertInsertItems(1)

\* in these runs no statement fails for a reason outside the data
InitRace ==
  /\ clients = { [id |-> "c1", user_id |-> "u1", name |-> "Ann", email |-> "ann@x"],
                 [id |-> "c2", user_id |-> "u2", name |-> "Bob", email |-> NULL] }
  /\ estimates = {}
  /\ estimate_items = {}
  /\ invoices = {}
  /\ invoice_items = {}
  /\ seq = [estimates |-> 0, invoices |-> 0]
  /\ faults = MaxFaults
  /\ today = 1
  /\ sess = [s \in Sessions |-> Idle]
  /\ toast = "none"
  /\ outbox = <<>>
  /\ tod = 1

SpecRace == InitRace /\ [][NextRace]_vars

\* One session of the tenant whose client has an email and of the one whose
\* client has none: the estimate forms with both buttons, the detail view with
\* its send, its approval and its conversion.
NextSend ==
  \/ /\ RoomForEstimate(SendEst, SendDocs)
     /\ \E u \in Users : \E f \in FormInputs(u) :
          \/ EstimateCreateSubmit(1, u, f, "draft", FALSE)
          \/ EstimateCreateSubmit(1, u, f, "sent", TRUE)
  \/ EstimateCreateItems(1)
  \/ \E u \in Users, id \in 1..SendEst : LoadEstimateEdit(1, u, id)
  \/ \E f \in FormInputs(sess[1].user) :
       \/ EstimateEditSubmit(1, f, "draft", FALSE)
       \/ EstimateEditSubmit(1, f, "sent", TRUE)
  \/ EstimateEditDelete(1)
  \/ EstimateEditInsert(1)
  \/ EstimateFormSend(1)
  \/ \E u \in Users, id \in 1..SendEst : LoadEstimateDetail(1, u, id)
  \/ CloseView(1)
  \/ \E st \in {"approved"} : handleStatusChange(1, st)
  \/ handleSendToClient(1)
  \/ SendEstimateUpdate(1)
  \/ /\ RoomForInvoice(SendInv, SendDocs)
     /\ \E n \in Numbers : ConvertInsertInvoice(1, n)
  \/ ConvertInsertItems(1)

SpecSend == Init /\ [][NextSend]_vars

\* Two sessions of one tenant on one estimate: session 1 saves, views and
\* sends it while session 2 edits it, client included.
NextSendRace ==
  \/ /\ RoomForEstimate(RaceEst, RaceEst)
     /\ \E f \in FormInputs("u1") : \E b \in {<<"draft", FALSE>>, <<"sent", TRUE>>} :
          EstimateCreateSubmit(1, "u1", f, b[1], b[2])
  \/ EstimateCreateItems(1)
  \/ EstimateFormSend(1)
  \/ \E id \in 1..RaceEst : LoadEstimateDetail(1, "u1", id)
  \/ handleSendToClient(1)
  \/ SendEstimateUpdate(1)
  \/ \E id \in 1..RaceEst : LoadEstimateEdit(2, "u1", id)
  \/ \E f \in FormInputs(sess[2].user) : EstimateEditSubmit(2, f, "draft", FALSE)
  \/ EstimateEditDelete(2)
  \/ EstimateEditInsert(2)
  \/ \E s \in Sessions : CloseView(s)

SpecSendRace == InitRace /\ [][NextSendRace]_vars

\* One session with every form: the estimate form with both of its buttons and
\* the send that follows Save & Send, the invoice form with its status selector.
NextForms ==
  \/ /\ RoomForEstimate(FormsEst, FormsEst + FormsInv)
     /\ \E u \in Users : \E f \in FormInputs(u) :
          \/ EstimateCreateSubmit(1, u, f, "draft", FALSE)
          \/ EstimateCreateSubmit(1, u, f, "sent", TRUE)
  \/ EstimateCreateItems(1)
  \/ \E u \in Users, id \in 1..FormsEst : LoadEstimateEdit(1, u, id)
  \/ \E f \in FormInputs(sess[1].user) :
       \/ EstimateEditSubmit(1, f, "draft", FALSE)
       \/ EstimateEditSubmit(1, f, "sent", TRUE)
  \/ EstimateEditDelete(1)
  \/ EstimateEditInsert(1)
  \/ EstimateFormSend(1)
  \/ SendEstimateUpdate(1)
  \/ /\ RoomForInvoice(FormsInv, FormsEst + FormsInv)
     /\ \E u \in Users : \E f \in FormInputs(u) : \E st \in InvoiceStatus :
          InvoiceCreateSubmit(1, u, f, st)
  \/ InvoiceCreateItems(1)
  \/ \E u \in Users, id \in 1..FormsInv : LoadInvoiceEdit(1, u, id)
  \/ \E f \in FormInputs(sess[1].user) : \E st \in InvoiceStatus : InvoiceEditSubmit(1, f, st)
  \/ InvoiceEditDelete(1)
  \/ InvoiceEditInsert(1)
  \/ CloseView(1)

SpecForms == Init /\ [][NextForms]_vars

\* Two sessions of one tenant on its invoices while the clock runs: session 1
\* creates them, both open the detail view and toggle there, session 2 also
\* toggles from the list and saves from the edit form with its status selector.
NextPaid ==
  \/ /\ RoomForInvoice(PaidInv, PaidInv)
     /\ \E f \in FormInputs("u1") : \E st \in InvoiceStatus : InvoiceCreateSubmit(1, "u1", f, st)
  \/ InvoiceCreateItems(1)
  \/ \E s \in Sessions, id \in 1..PaidInv : LoadInvoiceDetail(s, "u1", id)
  \/ \E s \in Sessions : InvoiceDetail_handleTogglePaid(s)
  \/ LoadInvoicesList(2, "u1")
  \/ InvoicesList_handleTogglePaid(2)
  \/ \E id \in 1..PaidInv : LoadInvoiceEdit(2, "u1", id)
  \/ \E f \in FormInputs(sess[2].user) : \E st \in InvoiceStatus : InvoiceEditSubmit(2, f, st)
  \/ InvoiceEditDelete(2)
  \/ InvoiceEditInsert(2)
  \/ \E s \in Sessions : CloseView(s)
  \/ Tick

SpecPaid == Init /\ [][NextPaid]_vars

\* An invoice of the first day, saved by the form with the due date its user
\* picked (none, the same day, a later day), at midnight UTC.
InitOverdue ==
  /\ clients = { [id |-> "c1", user_id |-> "u1", name |-> "Ann", email |-> "ann@x"],
                 [id |-> "c2", user_id |-> "u2", name |-> "Bob", email |-> NULL] }
  /\ today = 1
  /\ tod = 0
  /\ \E due \in {NoDate} \cup 1..MaxDay :
       LET f == CHOOSE f \in FormInputs("u1") : f.title = "Kitchen"
           row == [InvoiceInsertRow(1, "u1", f, "unpaid") EXCEPT !.due_date = due]
           items == InvoiceItemRows({}, 1, f.items)
       IN /\ invoice_items = items
          /\ invoices = recalculate_invoice_totals({row}, items, 1)
  /\ estimates = {}
  /\ estimate_items = {}
  /\ seq = [estimates |-> 0, invoices |-> 1]
  /\ faults = 0
  /\ sess = [s \in Sessions |-> Idle]
  /\ toast = "none"
  /\ outbox = <<>>

\* The two invoice views of one tenant while the clock runs: the detail view
\* in session 1, the list in session 2, each with its paid toggle.
NextOverdue ==
  \/ LoadInvoiceDetail(1, "u1", 1)
  \/ InvoiceDetail_handleTogglePaid(1)
  \/ LoadInvoicesList(2, "u1")
  \/ InvoicesList_handleTogglePaid(2)
  \/ \E s \in Sessions : CloseView(s)
  \/ Tick

SpecOverdue == InitOverdue /\ [][NextOverdue]_vars

\* Two sessions of one tenant on an estimate and an invoice: session 1 creates
\* and edits them, opens the list pages and the detail views with their status
\* change, paid toggle and archive; session 2 archives and restores from
\* detail views of its own.
NextArchive ==
  \/ /\ RoomForEstimate(ArchEst, ArchEst + ArchInv)
     /\ \E f \in FormInputs("u1") : EstimateCreateSubmit(1, "u1", f, "draft", FALSE)
  \/ EstimateCreateItems(1)
  \/ /\ RoomForInvoice(ArchInv, ArchEst + ArchInv)
     /\ \E f \in FormInputs("u1") : InvoiceCreateSubmit(1, "u1", f, "unpaid")
  \/ InvoiceCreateItems(1)
  \/ \E s \in Sessions, id \in 1..ArchEst : LoadEstimateDetail(s, "u1", id)
  \/ \E st \in {"sent", "approved"} : handleStatusChange(1, st)
  \/ \E s \in Sessions : EstimateDetail_handleArchive(s)
  \/ \E s \in Sessions, id \in 1..ArchInv : LoadInvoiceDetail(s, "u1", id)
  \/ InvoiceDetail_handleTogglePaid(1)
  \/ \E s \in Sessions : InvoiceDetail_handleArchive(s)
  \/ LoadEstimatesList(1, "u1")
  \/ LoadInvoicesList(1, "u1")
  \/ InvoicesList_handleTogglePaid(1)
  \/ \E id \in 1..ArchEst : LoadEstimateEdit(1, "u1", id)
  \/ \E f \in FormInputs(sess[1].user) : EstimateEditSubmit(1, f, "draft", FALSE)
  \/ EstimateEditDelete(1)
  \/ EstimateEditInsert(1)
  \/ \E id \in 1..ArchInv : LoadInvoiceEdit(1, "u1", id)
  \/ \E f \in FormInputs(sess[1].user) : InvoiceEditSubmit(1, f, sess[1].initStatus)
  \/ InvoiceEditDelete(1)
  \/ InvoiceEditInsert(1)
  \/ \E s \in Sessions : CloseView(s)

SpecArchive == InitRace /\ [][NextArchive]_vars

\* One session of the tenant with a client: its documents with and without
\* the client, the conversion from a detail view, and the delete of the client
\* from the clients page, confirmed or not.
NextClient ==
  \/ /\ RoomForEstimate(ClientEst, ClientEst + ClientInv)
     /\ \E f \in FormInputs("u1") : EstimateCreateSubmit(1, "u1", f, "draft", FALSE)
  \/ EstimateCreateItems(1)
  \/ /\ RoomForInvoice(ClientInv, ClientEst + ClientInv)
     /\ \E f \in FormInputs("u1") : InvoiceCreateSubmit(1, "u1", f, "unpaid")
  \/ InvoiceCreateItems(1)
  \/ \E s \in Sessions, id \in 1..ClientEst : LoadEstimateDetail(s, "u1", id)
  \/ \E st \in {"approved"} : handleStatusChange(1, st)
  \/ /\ RoomForInvoice(ClientInv, ClientEst + ClientInv)
     /\ \E s \in Sessions, n \in Numbers : ConvertInsertInvoice(s, n)
  \/ \E s \in Sessions : ConvertInsertItems(s)
  \/ LoadClientList(1, "u1")
  \/ \E id \in {"c1", "c2"}, confirmed \in BOOLEAN : ClientList_handleDelete(1, id, confirmed)
  \/ \E s \in Sessions : CloseView(s)

SpecClient == Init /\ [][NextClient]_vars

\* Two sessions of one tenant on an estimate and the invoices: session 1
\* creates, converts and deletes from the detail views, session 2 deletes from
\* detail views of its own and saves from the edit forms, whose item writes
\* can come after the delete of their document.
NextDelete ==
  \/ /\ RoomForEstimate(DelEst, DelEst + DelInv)
     /\ \E f \in FormInputs("u1") : EstimateCreateSubmit(1, "u1", f, "draft", FALSE)
  \/ EstimateCreateItems(1)
  \/ /\ RoomForInvoice(DelInv, DelEst + DelInv)
     /\ \E f \in FormInputs("u1") : InvoiceCreateSubmit(1, "u1", f, "unpaid")
  \/ InvoiceCreateItems(1)
  \/ \E s \in Sessions, id \in 1..DelEst : LoadEstimateDetail(s, "u1", id)
  \/ \E s \in Sessions, confirmed \in BOOLEAN : EstimateDetail_handleDelete(s, confirmed)
  \/ \E s \in Sessions, id \in 1..DelInv : LoadInvoiceDetail(s, "u1", id)
  \/ \E s \in Sessions, confirmed \in BOOLEAN : InvoiceDetail_handleDelete(s, confirmed)
  \/ \E st \in {"approved"} : handleStatusChange(1, st)
  \/ /\ RoomForInvoice(DelInv, DelEst + DelInv)
     /\ \E n \in Numbers : ConvertInsertInvoice(1, n)
  \/ ConvertInsertItems(1)
  \/ \E id \in 1..DelEst : LoadEstimateEdit(2, "u1", id)
  \/ \E f \in FormInputs(sess[2].user) : EstimateEditSubmit(2, f, "draft", FALSE)
  \/ EstimateEditDelete(2)
  \/ EstimateEditInsert(2)
  \/ \E id \in 1..DelInv : LoadInvoiceEdit(2, "u1", id)
  \/ \E f \in FormInputs(sess[2].user) : InvoiceEditSubmit(2, f, sess[2].initStatus)
  \/ InvoiceEditDelete(2)
  \/ InvoiceEditInsert(2)
  \/ \E s \in Sessions : CloseView(s)

SpecDelete == InitRace /\ [][NextDelete]_vars

\* One session used by both tenants in turn, with every form, view and
\* handler, each tenant also asking for the other's rows by id.
NextTenants ==
  \/ /\ RoomForEstimate(TenEst, TenDocs)
     /\ \E u \in Users : \E f \in FormInputs(u) : EstimateCreateSubmit(1, u, f, "draft", FALSE)
  \/ EstimateCreateItems(1)
  \/ /\ RoomForInvoice(TenInv, TenDocs)
     /\ \E u \in Users : \E f \in FormInputs(u) : InvoiceCreateSubmit(1, u, f, "unpaid")
  \/ InvoiceCreateItems(1)
  \/ \E u \in Users, id \in 1..TenEst : LoadEstimateEdit(1, u, id)
  \/ \E f \in FormInputs(sess[1].user) : EstimateEditSubmit(1, f, "draft", FALSE)
  \/ EstimateEditDelete(1)
  \/ EstimateEditInsert(1)
  \/ \E u \in Users, id \in 1..TenInv : LoadInvoiceEdit(1, u, id)
  \/ \E f \in FormInputs(sess[1].user) : InvoiceEditSubmit(1, f, sess[1].initStatus)
  \/ InvoiceEditDelete(1)
  \/ InvoiceEditInsert(1)
  \/ \E u \in Users, id \in 1..TenEst : LoadEstimateDetail(1, u, id)
  \/ \E st \in {"approved"} : handleStatusChange(1, st)
  \/ /\ RoomForInvoice(TenInv, TenDocs)
     /\ \E n \in Numbers : ConvertInsertInvoice(1, n)
  \/ ConvertInsertItems(1)
  \/ handleSendToClient(1)
  \/ SendEstimateUpdate(1)
  \/ EstimateDetail_handleArchive(1)
  \/ EstimateDetail_handleDelete(1, TRUE)
  \/ \E u \in Users, id \in 1..TenInv : LoadInvoiceDetail(1, u, id)
  \/ InvoiceDetail_handleTogglePaid(1)
  \/ InvoiceDetail_handleArchive(1)
  \/ InvoiceDetail_handleDelete(1, TRUE)
  \/ \E u \in Users : LoadEstimatesList(1, u)
  \/ \E u \in Users : LoadInvoicesList(1, u)
  \/ InvoicesList_handleTogglePaid(1)
  \/ \E u \in Users : LoadClientList(1, u)
  \/ \E id \in {"c1", "c2"} : ClientList_handleDelete(1, id, TRUE)
  \/ CloseView(1)

SpecTenants == InitRace /\ [][NextTenants]_vars

\* An estimate of the first tenant as its form saved it, no view open, and no
\* statement failing for a reason outside the data.
InitEdit ==
  /\ clients = { [id |-> "c1", user_id |-> "u1", name |-> "Ann", email |-> "ann@x"],
                 [id |-> "c2", user_id |-> "u2", name |-> "Bob", email |-> NULL] }
  /\ LET f == CHOOSE f \in FormInputs("u1") : f.title = "Kitchen"
         items == EstimateItemRows({}, 1, f.items)
     IN /\ estimate_items = items
        /\ estimates = recalculate_estimate_totals(
                          {EstimateInsertRow(1, "u1", f, "draft", FALSE)}, items, 1)
  /\ invoices = {}
  /\ invoice_items = {}
  /\ seq = [estimates |-> 1, invoices |-> 0]
  /\ faults = MaxFaults
  /\ today = 1
  /\ sess = [s \in Sessions |-> Idle]
  /\ toast = "none"
  /\ outbox = <<>>
  /\ tod = 1

\* Two sessions of one tenant that both edit that estimate: the three
\* statements of each edit-save interleave with the other's.
NextEdit ==
  \/ \E s \in Sessions : LoadEstimateEdit(s, "u1", 1)
  \/ \E s \in Sessions : \E f \in FormInputs(sess[s].user) : EstimateEditSubmit(s, f, "draft", FALSE)
  \/ \E s \in Sessions : EstimateEditDelete(s)
  \/ \E s \in Sessions : EstimateEditInsert(s)
  \/ \E s \in Sessions : CloseView(s)

SpecEdit == InitEdit /\ [][NextEdit]_vars

\* One session on that estimate: its edit form with the Status selector and
\* the two buttons, Save as Draft (handleSubmit('draft')) and Save & Send
\* (handleSubmit('sent', true)), and its detail view with the status menu.
NextSelector ==
  \/ LoadEstimateEdit(1, "u1", 1)
  \/ \E f \in FormInputsWithStatus(sess[1].user) :
       \/ EstimateEditSubmit(1, f, "draft", FALSE)
       \/ EstimateEditSubmit(1, f, "sent", TRUE)
  \/ EstimateEditDelete(1)
  \/ EstimateEditInsert(1)
  \/ EstimateFormSend(1)
  \/ SendEstimateUpdate(1)
  \/ LoadEstimateDetail(1, "u1", 1)
  \/ \E st \in EstimateStatus : handleStatusChange(1, st)
  \/ CloseView(1)

SpecSelector == InitEdit /\ [][NextSelector]_vars

\* ------------------------------------------------------------- properties
EstimateItemsOf(items, id) == {i \in items : i.estimate_id = id}
InvoiceItemsOf(items, id) == {i \in items : i.invoice_id = id}

\* the totals of a document are the ones its stored line items and tax rate give
ConsistentTotals(doc, rows) ==
  LET sub == Round2(SumRows(rows))
  IN /\ doc.subtotal = sub
     /\ doc.tax_amount = RoundDiv(sub * doc.tax_rate, 10000)
     /\ doc.total = doc.subtotal + doc.tax_amount

Totals(doc) == <<doc.subtotal, doc.tax_amount, doc.total>>

\* C1: a statement that inserts or deletes line items of a document leaves the
\* document with subtotal = round2(sum of quantity * unit_price), tax_amount =
\* round2(subtotal * tax_rate / 100) and total = subtotal + tax_amount, over
\* the items and the tax rate stored when the statement completes.
C1_ItemWriteRecomputes ==
  [][ /\ \A e \in estimates' :
           EstimateItemsOf(estimate_items', e.id) # EstimateItemsOf(estimate_items, e.id)
             => ConsistentTotals(e, EstimateItemsOf(estimate_items', e.id))
      /\ \A i \in invoices' :
           InvoiceItemsOf(invoice_items', i.id) # InvoiceItemsOf(invoice_items, i.id)
             => ConsistentTotals(i, InvoiceItemsOf(invoice_items', i.id)) ]_vars

\* C1 witness: one estimate whose two Trim lines (0.33 x 1.05 each) were
\* inserted and give 0.69 + 0.06 = 0.75, beside an estimate whose lines an
\* edit has just deleted, with totals back at zero
C1_Witness ==
  /\ \E e \in estimates :
       /\ Cardinality(EstimateItemsOf(estimate_items, e.id)) = 2
       /\ e.tax_rate = 825
       /\ Totals(e) = <<69, 6, 75>>
  /\ \E s \in Sessions :
       /\ sess[s].pc = "est_edit_insert"
       /\ \E e \in estimates :
            /\ e.id = sess[s].id
            /\ EstimateItemsOf(estimate_items, e.id) = {}
            /\ Totals(e) = <<0, 0, 0>>

\* C2: in every reachable state the totals of every estimate and invoice are
\* the ones its stored line items and tax rate give.
C2_TotalsNeverStale ==
  /\ \A e \in estimates : ConsistentTotals(e, EstimateItemsOf(estimate_items, e.id))
  /\ \A i \in invoices : ConsistentTotals(i, InvoiceItemsOf(invoice_items, i.id))

\* C3: a document with no line items has subtotal, tax_amount and total 0.
C3_NoItemsNoTotals ==
  /\ \A e \in estimates :
       EstimateItemsOf(estimate_items, e.id) = {} => Totals(e) = <<0, 0, 0>>
  /\ \A i \in invoices :
       InvoiceItemsOf(invoice_items, i.id) = {} => Totals(i) = <<0, 0, 0>>

\* C4: the totals of a document change only in a statement on its line items
\* (the trigger), and a document is inserted with the column defaults 0.
C4_OnlyTriggerWritesTotals ==
  [][ /\ \A e \in estimates' :
           IF Exists(estimates, e.id)
           THEN Totals(e) # Totals(Row(estimates, e.id))
                  => EstimateItemsOf(estimate_items', e.id) # EstimateItemsOf(estimate_items, e.id)
           ELSE Totals(e) = <<0, 0, 0>>
      /\ \A i \in invoices' :
           IF Exists(invoices, i.id)
           THEN Totals(i) # Totals(Row(invoices, i.id))
                  => InvoiceItemsOf(invoice_items', i.id) # InvoiceItemsOf(invoice_items, i.id)
           ELSE Totals(i) = <<0, 0, 0>> ]_vars

\* session s ends a conversion with success in this step: the insert of the
\* copied items, or the insert of the invoice where there were none to copy
ConversionDone(s) ==
  \/ sess[s].pc = "conv_items" /\ sess'[s].pc = "idle"
  \/ sess[s].pc = "est_detail" /\ sess'[s].pc = "idle" /\ seq'.invoices # seq.invoices

\* the id of the invoice the conversion of ConversionDone(s) has made
ConvertedId(s) == IF sess[s].pc = "conv_items" THEN sess[s].id ELSE seq'.invoices

\* what a copy keeps of a line item
Copied(r) == [description |-> r.description, quantity |-> r.quantity, unit |-> r.unit,
              unit_price |-> r.unit_price, sort_order |-> r.sort_order]

\* C5: a successful conversion of estimate E leaves an invoice with E's
\* client_id, title, description, tax_rate and notes, source_estimate_id = E.id,
\* status unpaid, due_date = issue_date + 30 days, and line items that are a
\* one-to-one copy (description, quantity, unit, unit_price, sort_order) of the
\* items E has in the store at that time, under new ids.
C5_ConversionCopiesStoredEstimate ==
  [][ \A s \in Sessions : ConversionDone(s) =>
        LET inv == Row(invoices', ConvertedId(s))
            mine == InvoiceItemsOf(invoice_items', inv.id)
            theirs == EstimateItemsOf(estimate_items, inv.source_estimate_id)
        IN /\ Exists(estimates, inv.source_estimate_id)
           /\ LET E == Row(estimates, inv.source_estimate_id)
              IN /\ inv.client_id = E.client_id
                 /\ inv.title = E.title
                 /\ inv.description = E.description
                 /\ inv.tax_rate = E.tax_rate
                 /\ inv.notes = E.notes
           /\ inv.status = "unpaid"
           /\ inv.due_date = inv.issue_date + 30
           /\ Cardinality(mine) = Cardinality(theirs)
           /\ {Copied(r) : r \in mine} = {Copied(r) : r \in theirs}
           /\ mine \cap invoice_items = {} ]_vars

\* C6: when a conversion completes, the totals of the new invoice are the ones
\* its own line items and tax rate give.
C6_ConvertedInvoiceRecomputed ==
  [][ \A s \in Sessions : ConversionDone(s) =>
        LET inv == Row(invoices', ConvertedId(s))
        IN ConsistentTotals(inv, InvoiceItemsOf(invoice_items', inv.id)) ]_vars

\* C6 witness: an invoice converted from an estimate, with the lines 10 x 50.00
\* and 1 x 200.00 at 8 %, stands at 700.00 + 56.00 = 756.00 while its source
\* estimate holds other totals
C6_Witness ==
  \E i \in invoices :
    /\ i.source_estimate_id # NoId
    /\ {ItemOf(r) : r \in InvoiceItemsOf(invoice_items, i.id)} = {Labor, Materials}
    /\ i.tax_rate = 800
    /\ Totals(i) = <<70000, 5600, 75600>>
    /\ \E e \in estimates : e.id = i.source_estimate_id /\ Totals(e) # Totals(i)

\* C7: an invoice with source_estimate_id = E enters the store only while the
\* stored status of E is approved.
C7_ConvertsOnlyApproved ==
  [][ \A i \in invoices' :
        (~Exists(invoices, i.id) /\ i.source_estimate_id # NoId)
          => \E e \in estimates : e.id = i.source_estimate_id /\ e.status = "approved" ]_vars

\* session s writes for a conversion in this step
ConversionStep(s) ==
  \/ sess[s].pc = "conv_items" /\ sess'[s].pc # "conv_items"
  \/ sess[s].pc = "est_detail" /\ seq'.invoices # seq.invoices

\* C8: the statements of a conversion leave every estimate and estimate item as
\* it was, and every invoice and invoice item that was there before; the
\* invoice and the item rows they add have ids no earlier row has, and the item
\* rows belong to the new invoice.
C8_ConversionFrame ==
  [][ \A s \in Sessions : ConversionStep(s) =>
        LET new == IF sess[s].pc = "conv_items" THEN sess[s].id ELSE seq'.invoices
        IN /\ estimates' = estimates
           /\ estimate_items' = estimate_items
           /\ {i \in invoices : i.id # new} = {i \in invoices' : i.id # new}
           /\ sess[s].pc = "est_detail" => ~Exists(invoices, new)
           /\ invoice_items \subseteq invoice_items'
           /\ \A r \in invoice_items' \ invoice_items :
                r.invoice_id = new /\ ~Exists(invoice_items, r.id)
           /\ Cardinality({i.id : i \in invoices'}) = Cardinality(invoices')
           /\ Cardinality({r.id : r \in invoice_items'}) = Cardinality(invoice_items') ]_vars

\* C8 witness: one estimate converted twice, two invoices each with its own rows
C8_Witness ==
  \E a, b \in invoices :
    /\ a.id # b.id
    /\ a.source_estimate_id # NoId
    /\ a.source_estimate_id = b.source_estimate_id
    /\ InvoiceItemsOf(invoice_items, a.id) # {}
    /\ InvoiceItemsOf(invoice_items, b.id) # {}
    /\ \E e \in estimates :
         e.id = a.source_estimate_id /\ e.status = "approved"
           /\ EstimateItemsOf(estimate_items, e.id) # {}

\* session s ends an attempt to create a document in this step
CreationEnds(s) ==
  \/ sess[s].pc \in {"est_create_items", "inv_create_items", "conv_items"}
       /\ sess'[s].pc # sess[s].pc
  \/ sess[s].pc = "est_detail" /\ sess'[s].pc = "idle" /\ seq'.invoices # seq.invoices

\* C9: when an estimate create-save, invoice create-save or conversion has
\* finished, the parent row is in the store if and only if all its line items
\* are, and it is not there with zero items.
C9_CreateAllOrNothing ==
  [][ \A s \in Sessions : CreationEnds(s) =>
        IF sess[s].pc = "est_create_items"
        THEN LET n == Cardinality(EstimateItemsOf(estimate_items', sess[s].id))
             IN IF Exists(estimates', sess[s].id)
                THEN n = Len(sess[s].form[1].items) /\ n > 0
                ELSE n = 0
        ELSE LET id == IF sess[s].pc = "est_detail" THEN seq'.invoices ELSE sess[s].id
                 want == IF sess[s].pc = "inv_create_items" THEN sess[s].form[1].items
                         ELSE sess[s].snap[1].items
                 n == Cardinality(InvoiceItemsOf(invoice_items', id))
             IN IF Exists(invoices', id) THEN n = Len(want) /\ n > 0 ELSE n = 0 ]_vars

\* C10: no two estimates of one tenant share an estimate_number and no two
\* invoices of one tenant share an invoice_number.
C10_NumbersUniquePerTenant ==
  /\ \A a, b \in estimates :
       (a.user_id = b.user_id /\ a.estimate_number = b.estimate_number) => a = b
  /\ \A a, b \in invoices :
       (a.user_id = b.user_id /\ a.invoice_number = b.invoice_number) => a = b

\* C10 witness: the same estimate number saved, line items and all, under both
\* tenants
C10_Witness ==
  /\ \E a, b \in estimates :
       /\ a.user_id # b.user_id
       /\ a.estimate_number = b.estimate_number
       /\ EstimateItemsOf(estimate_items, a.id) # {}
       /\ EstimateItemsOf(estimate_items, b.id) # {}
  /\ toast = "saved"

\* what a handler reports when it gives up
Failures == {"invalid", "conflict", "error"}

\* the two buttons of the estimate form: Save as Draft, Save & Send
Buttons == {<<"draft", FALSE>>, <<"sent", TRUE>>}

\* C11: an estimate create-save, an estimate edit-save or a conversion whose
\* number another document of the tenant already has reports a failure and
\* changes nothing: no row of any table, no mail, and the form or view stays
\* as it was (nothing of the save is left to run).
C11_TakenNumberChangesNothing ==
  [][ \A s \in Sessions :
        \/ toast' \in Failures /\ UNCHANGED <<store, outbox, sess>>
        \/ /\ sess[s].pc = "idle" =>
                \A u \in Users : \A f \in FormInputs(u) : \A b \in Buttons :
                  ~ /\ \E e \in estimates : e.user_id = u /\ e.estimate_number = f.number
                    /\ EstimateCreateSubmit(s, u, f, b[1], b[2])
           /\ sess[s].pc = "est_edit" =>
                \A f \in FormInputs(sess[s].user) : \A b \in Buttons :
                  ~ /\ \E e \in estimates : /\ e.user_id = sess[s].user
                                            /\ e.id # sess[s].id
                                            /\ e.estimate_number = f.number
                    /\ EstimateEditSubmit(s, f, b[1], b[2])
           /\ sess[s].pc = "est_detail" =>
                \A n \in Numbers :
                  ~ /\ \E i \in invoices : i.user_id = sess[s].user /\ i.invoice_number = n
                    /\ ConvertInsertInvoice(s, n) ]_vars

\* C11 witness: a conversion just refused for its number, the tenant's one
\* invoice and one mail of before still all there is
C11_Witness ==
  /\ toast = "conflict"
  /\ sess[1].pc = "est_detail"
  /\ Cardinality(invoices) = 1
  /\ \A i \in invoices : InvoiceItemsOf(invoice_items, i.id) # {}
  /\ Len(outbox) = 1

\* the mailer refuses the mail of a Save & Send of session s in this step
SaveAndSendMailFails(s) ==
  sess[s].pc = "send" /\ sess'[s].pc = "idle" /\ toast' = "send_failed"

\* C12: when the dispatch of a Save & Send fails, the estimate is in the store
\* with the fields of the form and with every submitted line item, and its
\* status is the one it had before the send (draft when the save created it,
\* the status the form was opened with when the save edited it): the failing
\* send changes nothing in the store.
C12_SendFailureKeepsSave ==
  [][ \A s \in Sessions : SaveAndSendMailFails(s) =>
        LET f == sess[s].form[1]
            id == sess[s].id
        IN /\ UNCHANGED <<store, outbox>>
           /\ Exists(estimates', id)
           /\ LET e == Row(estimates', id)
              IN /\ e.estimate_number = f.number
                 /\ e.title = f.title
                 /\ e.description = f.description
                 /\ e.notes = f.notes
                 /\ e.tax_rate = f.taxRate
                 /\ e.client_id = OrNull(f.clientId)
                 /\ e.status = Row(estimates, id).status
                 /\ e.status = IF sess[s].initStatus = NULL THEN "draft"
                               ELSE sess[s].initStatus
           /\ \A k \in 1..Len(f.items) :
                \E r \in EstimateItemsOf(estimate_items', id) :
                  ItemOf(r) = f.items[k] /\ r.sort_order = k - 1 ]_vars

\* C12 witness: the mail of a Save & Send was refused; the estimate it created
\* is a draft with its two lines, and nothing was mailed
C12_Witness ==
  /\ toast = "send_failed"
  /\ sess[1].pc = "idle"
  /\ outbox = <<>>
  /\ Cardinality(estimates) = 1
  /\ \E e \in estimates :
       /\ e.status = "draft"
       /\ Cardinality(EstimateItemsOf(estimate_items, e.id)) = 2

\* C13: when the send action reports success, the mail of the estimate is with
\* the mailer and the stored status of the estimate is sent.
C13_SendSuccessMeansSent ==
  [][ \A s \in Sessions :
        (sess[s].pc = "send_update" /\ sess'[s].pc = "idle" /\ toast' = "sent") =>
          /\ \E k \in 1..Len(outbox') : outbox'[k].estimate = sess[s].id
          /\ \E e \in estimates' : e.id = sess[s].id /\ e.status = "sent" ]_vars

Incomplete(f) == f.title = "" \/ f.number = "" \/ f.items = <<>>

\* a form with no client, or with a client that has no email
NoAddress(f) == f.clientId = "" \/ \A c \in clients : c.id = f.clientId => c.email = NULL

\* C15: validation precedes every write.  An estimate or invoice save, create
\* or edit, submitted with an empty title, an empty number or no line items, and
\* a Save & Send submitted with no client or with a client without email, writes
\* nothing to the store, sends no mail, and leaves no step of the save pending.
C15_ValidationPrecedesWrites ==
  [][ /\ sess[1].pc = "idle" =>
           \A u \in Users : \A f \in FormInputs(u) :
             /\ \A b \in Buttons :
                  (Incomplete(f) \/ (b[2] /\ NoAddress(f))) /\ EstimateCreateSubmit(1, u, f, b[1], b[2])
                    => UNCHANGED <<store, outbox, sess>>
             /\ \A st \in InvoiceStatus :
                  Incomplete(f) /\ InvoiceCreateSubmit(1, u, f, st)
                    => UNCHANGED <<store, outbox, sess>>
      /\ sess[1].pc = "est_edit" =>
           \A f \in FormInputs(sess[1].user) : \A b \in Buttons :
             (Incomplete(f) \/ (b[2] /\ NoAddress(f))) /\ EstimateEditSubmit(1, f, b[1], b[2])
               => UNCHANGED <<store, outbox, sess>>
      /\ sess[1].pc = "inv_edit" =>
           \A f \in FormInputs(sess[1].user) : \A st \in InvoiceStatus :
             Incomplete(f) /\ InvoiceEditSubmit(1, f, st)
               => UNCHANGED <<store, outbox, sess>> ]_vars

\* a submission was turned down by the edit form of a stored invoice, after an
\* estimate was saved and mailed
C15_Witness ==
  /\ toast = "invalid"
  /\ sess[1].pc = "inv_edit"
  /\ estimates # {}
  /\ outbox # <<>>

\* C16: in every reachable state every invoice has a paid_date if and only if
\* its status is paid, whatever create-saves, edit-saves with the status
\* selector and paid toggles from the detail view or the list came before.
C16_PaidDateIffPaid ==
  \A i \in invoices : (i.paid_date # NoDate) <=> (i.status = "paid")

\* the session whose view made the successful paid toggle of a step
Toggles(s) ==
  /\ sess[s].pc \in {"inv_detail", "inv_list"}
  /\ toast' = "toggled"
  /\ sess'[s] # sess[s]

\* the stored invoice with its status flipped on the current date
Flipped(i) ==
  [i EXCEPT !.status = IF i.status = "unpaid" THEN "paid" ELSE "unpaid",
            !.paid_date = IF i.status = "unpaid" THEN today ELSE NoDate]

\* C17: a successful paid toggle flips the stored status of its invoice, from
\* unpaid to paid with paid_date the current date and from paid to unpaid with
\* no paid_date, and changes nothing else, also when the view that toggles was
\* loaded before another view changed the invoice.
C17_ToggleFlipsStoredStatus ==
  [][ \A s \in Sessions : Toggles(s) =>
        /\ \A i \in invoices : i.id = sess'[s].id /\ i.user_id = sess[s].user =>
              invoices' = (invoices \ {i}) \cup {Flipped(i)}
        /\ UNCHANGED <<clients, estimates, estimate_items, invoice_items, seq>> ]_vars

\* the invoices a view shows after a step in which it rendered
Rendered(s) ==
  IF sess'[s] = sess[s] THEN {}
  ELSE IF sess'[s].pc = "inv_detail" THEN {sess'[s].snap[1]}
  ELSE IF sess'[s].pc = "inv_list" THEN sess'[s].snap[1]
  ELSE {}

\* C18: a view reports an invoice overdue if and only if the invoice is
\* unpaid, has a due date, and that due date is strictly before today's date:
\* due yesterday is overdue, due today is not, a paid invoice never is.
C18_OverdueIffUnpaidPastDue ==
  [][ \A s \in Sessions : \A v \in Rendered(s) :
        v.overdue <=> (v.status = "unpaid" /\ v.due_date # NoDate /\ v.due_date < today) ]_vars

\* the rows of a table, new against old, that a step gave another archived_at
Rearchived(old, new) ==
  {p \in old \X new : p[1].id = p[2].id /\ p[1].archived_at # p[2].archived_at}

\* the session whose detail view archived or restored in a step
Archives(s) ==
  /\ sess[s].pc \in {"est_detail", "inv_detail"}
  /\ toast' \in {"archived", "restored"}
  /\ sess'[s] # sess[s]

\* the stored document of the detail view of session s, after the step
DocumentAfter(s) ==
  IF sess[s].pc = "est_detail"
  THEN {e \in estimates' : e.id = sess[s].id}
  ELSE {i \in invoices' : i.id = sess[s].id}

\* C19: a step that changes the archived_at of an estimate or an invoice
\* changes nothing else: not its status, paid_date, tax_rate or totals, no line
\* item, no other row; a restore leaves archived_at null and an archive leaves
\* it set; a status change or a paid toggle changes no archived_at.
C19_ArchiveChangesOnlyArchivedAt ==
  [][ /\ \A p \in Rearchived(estimates, estimates') :
           /\ estimates' = (estimates \ {p[1]}) \cup {[p[1] EXCEPT !.archived_at = p[2].archived_at]}
           /\ UNCHANGED <<clients, estimate_items, invoices, invoice_items, seq>>
      /\ \A p \in Rearchived(invoices, invoices') :
           /\ invoices' = (invoices \ {p[1]}) \cup {[p[1] EXCEPT !.archived_at = p[2].archived_at]}
           /\ UNCHANGED <<clients, estimates, estimate_items, invoice_items, seq>>
      /\ \A s \in Sessions : Archives(s) =>
           \A d \in DocumentAfter(s) : (d.archived_at = NoDate) <=> (toast' = "restored")
      /\ toast' \in {"status", "toggled"} =>
           Rearchived(estimates, estimates') = {} /\ Rearchived(invoices, invoices') = {} ]_vars

\* a paid invoice was archived and restored and is paid as before, while the
\* approved estimate is archived
C19_Witness ==
  /\ toast = "restored"
  /\ sess[1].pc = "inv_detail"
  /\ \E i \in invoices : i.id = sess[1].id /\ i.status = "paid" /\ i.paid_date # NoDate
                             /\ i.archived_at = NoDate /\ i.total > 0
  /\ \E e \in estimates : e.status = "approved" /\ e.archived_at # NoDate

\* the ids a list page shows after the step in which session s opened it
Listed(s) == {v.id : v \in sess'[s].snap[1]}

\* C20: for estimates and invoices alike, a document of the user appears in
\* the default list page exactly if its archived_at is null.
C20_ListedIffNotArchived ==
  [][ \A s \in Sessions : sess[s].pc = "idle" =>
        /\ sess'[s].pc = "est_list" =>
              Listed(s) = {e.id : e \in {e \in estimates :
                                           e.user_id = sess'[s].user /\ e.archived_at = NoDate}}
        /\ sess'[s].pc = "inv_list" =>
              Listed(s) = {i.id : i \in {i \in invoices :
                                           i.user_id = sess'[s].user /\ i.archived_at = NoDate}} ]_vars

\* the stored estimate of the detail view of session 1
Viewed == {e \in estimates : e.id = sess[1].id /\ e.user_id = sess[1].user}

\* a step of the status menu that reports success and leaves e with status st
StatusSetTo(e, st) ==
  /\ toast' = "status"
  /\ [e EXCEPT !.status = st] \in estimates'

\* C21: the estimate status machine is not forward-only.  From a detail view,
\* whatever the stored status of its estimate is (declined included), the
\* status menu can set each of the four statuses; and a manual status change
\* modifies the status field of that estimate only: items, totals, client and
\* archived_at, every other row and every invoice stay as they are.
C21_StatusMenuSetsAnyStatus ==
  /\ [](sess[1].pc = "est_detail" =>
          \A e \in Viewed : \A st \in EstimateStatus : ENABLED (Next /\ StatusSetTo(e, st)))
  /\ [][ sess[1].pc = "est_detail" /\ toast' = "status" =>
           /\ \A e \in Viewed : \E st \in EstimateStatus :
                 estimates' = (estimates \ {e}) \cup {[e EXCEPT !.status = st]}
           /\ UNCHANGED <<clients, estimate_items, invoices, invoice_items, seq, outbox>> ]_vars

\* the status menu set an estimate with a client, items and totals to draft
C21_Witness ==
  /\ toast = "status"
  /\ \E e \in estimates : e.status = "draft" /\ e.client_id # NULL /\ e.total > 0
                              /\ EstimateItemsOf(estimate_items, e.id) # {}

\* a stored document as it is after its client was deleted
Unreferenced(d, goneIds) == IF d.client_id \in goneIds THEN [d EXCEPT !.client_id = NULL] ELSE d

\* C22: deleting a client deletes no estimate, invoice or line item.  Every
\* document that referenced the client is still there with client_id null and
\* everything else (status, totals, items) as before, the other documents are
\* untouched; and in every state every document's client_id is null or the id
\* of a stored client.
C22_ClientDeleteKeepsDocuments ==
  /\ [](\A d \in estimates \cup invoices :
          d.client_id = NULL \/ \E c \in clients : c.id = d.client_id)
  /\ [][ clients' # clients =>
           LET goneIds == {c.id : c \in clients \ clients'}
           IN /\ clients' \subseteq clients
              /\ estimates' = {Unreferenced(e, goneIds) : e \in estimates}
              /\ invoices' = {Unreferenced(i, goneIds) : i \in invoices}
              /\ UNCHANGED <<estimate_items, invoice_items, seq>> ]_vars

\* the client was deleted and an approved estimate and an invoice that had
\* referenced it are stored without a client, their totals and items in place
C22_Witness ==
  /\ toast = "client_deleted"
  /\ clients = {c \in clients : c.user_id # "u1"}
  /\ \E e \in estimates : e.title = "Kitchen" /\ e.client_id = NULL /\ e.status = "approved"
                              /\ e.total > 0 /\ EstimateItemsOf(estimate_items, e.id) # {}
  /\ \E i \in invoices : i.title = "Kitchen" /\ i.client_id = NULL /\ i.total > 0
                             /\ InvoiceItemsOf(invoice_items, i.id) # {}

\* the ids of the rows of a table that a step removed
Removed(old, new) == {r.id : r \in old} \ {r.id : r \in new}

\* C23: an estimate or invoice is deleted only by a confirmed delete, which
\* removes the document together with all of its line items; a declined
\* confirmation changes nothing; and in every state every line item has its
\* parent document (no orphaned line items).
C23_DeleteTakesItemsAlong ==
  /\ [](/\ \A i \in estimate_items : \E e \in estimates : e.id = i.estimate_id
        /\ \A i \in invoice_items : \E v \in invoices : v.id = i.invoice_id)
  /\ [][ /\ Removed(estimates, estimates') # {} \/ Removed(invoices, invoices') # {} =>
             /\ toast' = "deleted"
             /\ \A i \in estimate_items' : i.estimate_id \notin Removed(estimates, estimates')
             /\ \A i \in invoice_items' : i.invoice_id \notin Removed(invoices, invoices')
        /\ \A s \in Sessions :
             /\ sess[s].pc = "est_detail" /\ EstimateDetail_handleDelete(s, FALSE)
                  => UNCHANGED <<store, outbox, sess>>
             /\ sess[s].pc = "inv_detail" /\ InvoiceDetail_handleDelete(s, FALSE)
                  => UNCHANGED <<store, outbox, sess>> ]_vars

\* an estimate with line items was deleted from its detail view while an
\* edit-save of it was on its way to its item writes; none of its items is left
C23_Witness ==
  /\ toast = "deleted"
  /\ seq.estimates = DelEst
  /\ estimates = {}
  /\ estimate_items = {}
  /\ sess[2].pc \in {"est_edit_delete", "est_edit_insert"}
  /\ \E i \in invoice_items : TRUE

\* the rows tenant u owns: its clients and documents, and the line items of
\* its documents
OwnedBy(u) ==
  <<{c \in clients : c.user_id = u},
    {e \in estimates : e.user_id = u},
    {i \in estimate_items : \E e \in estimates : e.id = i.estimate_id /\ e.user_id = u},
    {v \in invoices : v.user_id = u},
    {i \in invoice_items : \E v \in invoices : v.id = i.invoice_id /\ v.user_id = u}>>

\* the tenant whose form, view or handler takes the step
Actor == IF sess[1].user # NULL THEN sess[1].user ELSE sess'[1].user

\* the stored rows that what a session holds was read from
SeenEstimates(v) ==
  IF v.pc \in {"est_detail", "est_edit", "est_edit_delete", "est_edit_insert", "est_create_items",
               "send", "send_update"}
  THEN {e \in estimates : e.id = v.id}
  ELSE IF v.pc = "est_list" THEN {e \in estimates : e.id \in {r.id : r \in v.snap[1]}}
  ELSE {}
SeenInvoices(v) ==
  IF v.pc \in {"inv_detail", "inv_edit", "inv_edit_delete", "inv_edit_insert", "inv_create_items",
               "conv_items"}
  THEN {i \in invoices : i.id = v.id}
  ELSE IF v.pc = "inv_list" THEN {i \in invoices : i.id \in {r.id : r \in v.snap[1]}}
  ELSE {}
SeenClients(v) ==
  IF v.pc = "client_list" THEN {c \in clients : c.id \in v.snap[1]}
  ELSE IF v.pc \in {"est_detail", "conv_items"} THEN {c \in clients : c.id = v.snap[1].client}
  ELSE {}

\* C24: tenants are isolated.  Whatever a session holds of the store was read
\* from rows of the tenant it acts for (clients, estimates, invoices; line
\* items through their parent), every mail goes out for an estimate of the
\* sender, and a step changes the rows of no tenant but the one that takes it,
\* so that one tenant's operations never change what the other can read.
C24_TenantsIsolated ==
  /\ [](/\ \A r \in SeenEstimates(sess[1]) \cup SeenInvoices(sess[1]) \cup SeenClients(sess[1]) :
             r.user_id = sess[1].user
        /\ \A k \in 1..Len(outbox) : \A e \in estimates :
             e.id = outbox[k].estimate => e.user_id = outbox[k].user)
  /\ [][ \A u \in Users : OwnedBy(u)' # OwnedBy(u) => Actor = u ]_vars

\* the second tenant paid, archived or deleted a document of its own while
\* the first tenant's estimate with its items and client is stored as it was sent
C24_Witness ==
  /\ toast \in {"toggled", "archived", "deleted"}
  /\ sess[1].user \in {NULL, "u2"}
  /\ seq.invoices > 0
  /\ \A v \in invoices : v.user_id = "u2"
  /\ \E e \in estimates : e.user_id = "u1" /\ e.status = "sent" /\ e.client_id = "c1"
                              /\ EstimateItemsOf(estimate_items, e.id) # {}
  /\ outbox # <<>>

\* the line items stored for an estimate, and those a form submits, each with
\* its place in the list
StoredItems(id) ==
  {[sort_order |-> i.sort_order, item |-> ItemOf(i)] : i \in EstimateItemsOf(estimate_items, id)}
SubmittedItems(f) == {[sort_order |-> k - 1, item |-> f.items[k]] : k \in 1..Len(f.items)}

\* no save is on its way
Quiet == \A s \in Sessions : sess[s].pc \in {"idle", "est_edit"}

\* C25: when two callers edit-save the same estimate concurrently and both
\* have completed, the stored line items are exactly the full list one of
\* them submitted, never a union or mixture of both, and the stored totals
\* are those of that list.
C25_LastWriterWinsWhole ==
  Quiet =>
    \A e \in estimates :
      /\ \E f \in FormInputs(e.user_id) :
           /\ f.items # <<>>
           /\ StoredItems(e.id) = SubmittedItems(f)
           /\ Cardinality(EstimateItemsOf(estimate_items, e.id)) = Len(f.items)
      /\ ConsistentTotals(e, EstimateItemsOf(estimate_items, e.id))

\* the line items a table holds for a document, each with its place in the list
Placed(rows) == {[sort_order |-> i.sort_order, item |-> ItemOf(i)] : i \in rows}

\* C26: whenever an edit-save of an estimate or an invoice by a single writer
\* reports success, the stored line items of the document are exactly the
\* submitted list: no earlier item remains, every submitted item is stored
\* once, and sort_order is the item's place 0..n-1 in the list; also when the
\* delete-all step of the save failed.
C26_EditSaveStoresSubmittedList ==
  [][ /\ sess[1].pc = "est_edit_insert" /\ toast' = "saved" =>
           LET rows == EstimateItemsOf(estimate_items', sess[1].id)
           IN /\ Placed(rows) = SubmittedItems(sess[1].form[1])
              /\ Cardinality(rows) = Len(sess[1].form[1].items)
      /\ sess[1].pc = "inv_edit_insert" /\ toast' = "saved" =>
           LET rows == InvoiceItemsOf(invoice_items', sess[1].id)
           IN /\ Placed(rows) = SubmittedItems(sess[1].form[1])
              /\ Cardinality(rows) = Len(sess[1].form[1].items) ]_vars

\* C27: a save through the estimate form that does not send stores the status
\* selected in the form's Status selector, for each of draft, sent, approved
\* and declined.
C27_SaveStoresSelectedStatus ==
  [][ sess[1].pc = "est_edit_insert" /\ ~sess[1].send /\ toast' = "saved" =>
        \A e \in estimates' : e.id = sess[1].id => e.status = sess[1].form[1].status ]_vars

\* C28: a send moves an estimate to sent only from draft.  When the send
\* action succeeds for an estimate whose stored status is approved or declined
\* (Save & Send in the edit form), the stored status is not changed to sent.
C28_SendLeavesApprovedAndDeclined ==
  [][ sess[1].pc = "send_update" /\ toast' = "sent" =>
        \A e \in estimates : e.id = sess[1].id /\ e.status \in {"approved", "declined"} =>
          \E e2 \in estimates' : e2.id = e.id /\ e2.status = e.status ]_vars


\* One tenant at the create form of invoices while the clock runs: the form
\* is opened, its issue date is set to any day or cleared, its due date input
\* is left alone, and it is submitted.
NextDates ==
  \/ OpenInvoiceForm(1, "u1")
  \/ \E date \in {NoDate} \cup 1..MaxDay : setIssueDate(1, date)
  \/ /\ RoomForInvoice(DatesInv, DatesInv)
     /\ \E f \in FormInputs("u1") : InvoiceNewSubmit(1, f, "unpaid")
  \/ InvoiceCreateItems(1)
  \/ CancelInvoiceForm(1)
  \/ Tick

SpecDates == Init /\ [][NextDates]_vars

\* C29: an invoice saved by the create form whose due date input was never
\* touched has due_date = issue_date + 30 days, whatever was typed into the
\* other fields, the issue date included.
C29_DefaultDueFollowsIssueDate ==
  \A i \in invoices : i.due_date = i.issue_date + DueDays


RECURSIVE SumAmounts(_)
\* the sum of the stored amounts of a set of item rows
SumAmounts(rows) ==
  IF rows = {} THEN 0
  ELSE LET r == CHOOSE x \in rows : TRUE
       IN r.amount + SumAmounts(rows \ {r})

\* amount is in 1/100, quantity and unit_price are in 1/100 each
ExactAmounts(rows) == \A i \in rows : 100 * i.amount = i.quantity * i.unit_price

\* C30: when a form has stored the line items of a document, each stored
\* amount is exactly quantity x unit_price and the stored subtotal of the
\* document is the sum of the stored amounts of its items.
C30_AmountsExactSubtotalTheirSum ==
  [][ toast' = "saved" =>
        /\ sess[1].pc \in {"est_create_items", "est_edit_insert"} =>
             LET rows == {i \in estimate_items' : i.estimate_id = sess[1].id}
             IN /\ ExactAmounts(rows)
                /\ \A e \in estimates' : e.id = sess[1].id => e.subtotal = SumAmounts(rows)
        /\ sess[1].pc \in {"inv_create_items", "inv_edit_insert"} =>
             LET rows == {i \in invoice_items' : i.invoice_id = sess[1].id}
             IN /\ ExactAmounts(rows)
                /\ \A e \in invoices' : e.id = sess[1].id => e.subtotal = SumAmounts(rows) ]_vars

====
